---- MODULE Spec2Model ----
(***************************************************************************)
(* Meeting finalisation of the note-taking backend: the finaliseMeeting    *)
(* handler, the transcript processing behind it (sentence splitting, the   *)
(* four entity extractors, the summary generator), and the note handlers   *)
(* (createNote, updateNote) that write the same rows.                      *)
(*                                                                         *)
(* Strings are TLA+ strings; a character is a string of length 1 taken     *)
(* with SubSeq.  Regular expressions are translated into scanners that     *)
(* try the alternatives of every quantifier in the order the JavaScript    *)
(* backtracking matcher tries them (greedy: longest first).                *)
(***************************************************************************)
EXTENDS Integers, Sequences, FiniteSets, TLC

(***************************************************************************)
(* Characters and the JavaScript string primitives the handlers use.       *)
(***************************************************************************)
UpperStr == "ABCDEFGHIJKLMNOPQRSTUVWXYZ"
LowerStr == "abcdefghijklmnopqrstuvwxyz"
DigitStr == "0123456789"

CharsOf(str) == { SubSeq(str, i, i) : i \in 1..Len(str) }

UpperChars == CharsOf(UpperStr)
LowerChars == CharsOf(LowerStr)
DigitChars == CharsOf(DigitStr)
\* \w of a JavaScript regular expression
WordChars == UpperChars \cup LowerChars \cup DigitChars \cup {"_"}
\* \s of a regular expression and the characters trim() removes
SpaceChars == {" ", "\t", "\n", "\r", "\f"}
\* the character class [.!?] the sentences are split on
SentenceDelims == {".", "!", "?"}

\* the character at position i (1-based), "" outside the string
Ch(s, i) == IF i >= 1 /\ i <= Len(s) THEN SubSeq(s, i, i) ELSE ""

IsUpper(c) == c \in UpperChars
IsLower(c) == c \in LowerChars
IsDigit(c) == c \in DigitChars
IsWord(c)  == c \in WordChars
IsSpace(c) == c \in SpaceChars

Min(S) == CHOOSE x \in S : \A y \in S : x <= y
Max(S) == CHOOSE x \in S : \A y \in S : x >= y

\* String.prototype.slice(from) with a 1-based position
StrFrom(s, i) == SubSeq(s, i, Len(s))

\* one character of toLowerCase()
LowerOf(c) ==
  IF c \in UpperChars
  THEN LET k == CHOOSE i \in 1..Len(UpperStr) : SubSeq(UpperStr, i, i) = c
       IN  SubSeq(LowerStr, k, k)
  ELSE c

\* toLowerCase(), character by character (the string is halved to keep the
\* evaluation shallow)
RECURSIVE toLowerCase(_)
toLowerCase(s) ==
  IF Len(s) = 0 THEN ""
  ELSE IF Len(s) = 1 THEN LowerOf(s)
  ELSE LET h == Len(s) \div 2
       IN  toLowerCase(SubSeq(s, 1, h)) \o toLowerCase(SubSeq(s, h + 1, Len(s)))

\* String.prototype.includes(k)
includes(s, k) ==
  \E i \in 1..(Len(s) - Len(k) + 1) : SubSeq(s, i, i + Len(k) - 1) = k

\* String.prototype.trim()
trim(s) ==
  LET keep == { i \in 1..Len(s) : ~IsSpace(Ch(s, i)) }
  IN  IF keep = {} THEN "" ELSE SubSeq(s, Min(keep), Max(keep))

\* slice(-n) in place of slice(0, n): the last n entries
sliceLast(seq, n) ==
  SubSeq(seq, IF Len(seq) < n THEN 1 ELSE Len(seq) - n + 1, Len(seq))

\* Array.prototype.slice(0, n)
slice0(seq, n) == SubSeq(seq, 1, IF Len(seq) < n THEN Len(seq) ELSE n)

\* Array.prototype.includes(x)
arrIncludes(seq, x) == \E i \in 1..Len(seq) : seq[i] = x

\* Array.prototype.filter(s => s.trim().length > 0)
RECURSIVE filterNonBlank(_)
filterNonBlank(seq) ==
  IF seq = <<>> THEN <<>>
  ELSE IF Len(trim(Head(seq))) > 0
       THEN <<Head(seq)>> \o filterNonBlank(Tail(seq))
       ELSE filterNonBlank(Tail(seq))

\* dedupe keeping the last occurrence of every element in place of the first
RECURSIVE dedupeKeepLast(_)
dedupeKeepLast(seq) ==
  IF seq = <<>> THEN <<>>
  ELSE LET rest == dedupeKeepLast(Tail(seq))
       IN  IF arrIncludes(rest, Head(seq)) THEN rest ELSE <<Head(seq)>> \o rest

\* [...new Set(seq)]: the first occurrence of every element, in order
RECURSIVE dedupe(_)
dedupe(seq) ==
  IF seq = <<>> THEN <<>>
  ELSE LET front == dedupe(SubSeq(seq, 1, Len(seq) - 1))
           last  == seq[Len(seq)]
       IN  IF arrIncludes(front, last) THEN front ELSE Append(front, last)

\* Array.prototype.join(sep)
RECURSIVE join(_, _)
join(seq, sep) ==
  IF seq = <<>> THEN ""
  ELSE IF Len(seq) = 1 THEN seq[1]
  ELSE seq[1] \o sep \o join(Tail(seq), sep)

\* the decimal text of a natural number, as a template literal prints it
RECURSIVE numToString(_)
numToString(n) ==
  IF n < 10 THEN SubSeq(DigitStr, n + 1, n + 1)
  ELSE numToString(n \div 10) \o SubSeq(DigitStr, (n % 10) + 1, (n % 10) + 1)

\* floorDiv rounding up in place of down
floorDivRoundedUp(a, b) == (a + b - 1) \div b

\* Math.floor(a / b) and Math.ceil(a / b) for naturals
floorDiv(a, b) == a \div b
ceilDiv(a, b)  == (a + b - 1) \div b

\* \b at position p: between the characters p-1 and p exactly one is a word
\* character (outside the string counts as a non-word character)
Boundary(s, p) == IsWord(Ch(s, p - 1)) # IsWord(Ch(s, p))

\* the length of the run of characters of class C starting at p
RECURSIVE runLen(_, _, _)
runLen(s, p, C) == IF Ch(s, p) \in C THEN 1 + runLen(s, p + 1, C) ELSE 0

\* n characters of class C start at p
allIn(s, p, n, C) == \A i \in p..(p + n - 1) : Ch(s, i) \in C

\* the literal w stands at position i
literalAt(s, i, w) ==
  i >= 1 /\ i + Len(w) - 1 <= Len(s) /\ SubSeq(s, i, i + Len(w) - 1) = w

\* the first non-zero entry of a sequence of end positions (0 = no match):
\* the alternative the backtracking matcher settles on
RECURSIVE firstMatch(_)
firstMatch(ends) ==
  IF ends = <<>> THEN 0
  ELSE IF Head(ends) # 0 THEN Head(ends) ELSE firstMatch(Tail(ends))

\* String.prototype.match with a global pattern: all matches left to right,
\* each search resuming where the previous match ended.  ends[i] is the
\* position after the match anchored at i, or 0 when none is anchored there.
RECURSIVE matchesFrom(_, _, _)
matchesFrom(s, ends, from) ==
  LET starts == { i \in from..Len(s) : ends[i] # 0 }
  IN  IF starts = {} THEN <<>>
      ELSE LET i == Min(starts)
           IN  <<SubSeq(s, i, ends[i] - 1)>> \o matchesFrom(s, ends, ends[i])

\* String.prototype.split(/[.!?]+/)
RECURSIVE splitSentences(_)
splitSentences(s) ==
  LET delims == { i \in 1..Len(s) : Ch(s, i) \in SentenceDelims }
  IN  IF delims = {} THEN <<s>>
      ELSE LET d == Min(delims)
               e == d + runLen(s, d, SentenceDelims)
           IN  <<SubSeq(s, 1, d - 1)>> \o splitSentences(StrFrom(s, e))

\* the `sentences` array of processTranscript
sentencesOf(transcript) == filterNonBlank(splitSentences(transcript))

(***************************************************************************)
(* extractPeople: /\b[A-Z][a-z]+(?:\s[A-Z][a-z]+)*\b/g                     *)
(***************************************************************************)
\* nameTail with a literal space in place of \s
RECURSIVE nameTailSpaceOnly(_, _)
nameTailSpaceOnly(s, p) ==
  LET canIter == Ch(s, p) = " " /\ IsUpper(Ch(s, p + 1))
      run     == runLen(s, p + 2, LowerChars)
      more    == firstMatch([k \in 1..run |-> nameTailSpaceOnly(s, p + 2 + (run - k + 1))])
  IN  IF canIter /\ more # 0 THEN more
      ELSE IF Boundary(s, p) THEN p ELSE 0

\* (?:\s[A-Z][a-z]+)*\b from position p: the position after the match, or 0.
\* The star first tries one more group, with [a-z]+ from its longest run
\* down to one character, and only then ends the repetition and tests \b.
RECURSIVE nameTail(_, _)
nameTail(s, p) ==
  LET canIter == IsSpace(Ch(s, p)) /\ IsUpper(Ch(s, p + 1))
      run     == runLen(s, p + 2, LowerChars)
      more    == firstMatch([k \in 1..run |-> nameTail(s, p + 2 + (run - k + 1))])
  IN  IF canIter /\ more # 0 THEN more
      ELSE IF Boundary(s, p) THEN p ELSE 0

\* the whole name pattern anchored at position i: position after it, or 0
nameAt(s, i) ==
  IF Boundary(s, i) /\ IsUpper(Ch(s, i))
  THEN LET run == runLen(s, i + 1, LowerChars)
       IN  firstMatch([k \in 1..run |-> nameTail(s, i + 1 + (run - k + 1))])
  ELSE 0

\* transcript.match(namePattern) || []
nameMatches(s) == matchesFrom(s, [i \in 1..Len(s) |-> nameAt(s, i)], 1)

commonWords ==
  << "The", "This", "That", "Monday", "Tuesday", "Wednesday", "Thursday",
     "Friday", "Saturday", "Sunday", "January", "February", "March", "April",
     "May", "June", "July", "August", "September", "October", "November",
     "December" >>

\* matches.filter(name => !commonWords.includes(name))
RECURSIVE filterCommon(_)
filterCommon(seq) ==
  IF seq = <<>> THEN <<>>
  ELSE IF arrIncludes(commonWords, Head(seq)) THEN filterCommon(Tail(seq))
  ELSE <<Head(seq)>> \o filterCommon(Tail(seq))

\* the list `people` before it is cut
peopleAll(transcript) == dedupe(filterCommon(nameMatches(transcript)))

MaxPeople == 10

extractPeople(transcript) == slice0(peopleAll(transcript), MaxPeople)

(***************************************************************************)
(* extractDecisions and extractRisks                                       *)
(***************************************************************************)
decisionKeywords ==
  << "decided", "agreed", "resolved", "concluded", "determined", "will do",
     "action item" >>

riskKeywords ==
  << "risk", "concern", "issue", "problem", "challenge", "blocker",
     "obstacle" >>

\* firstKeyword choosing the keyword that occurs earliest in the sentence
firstKeywordByPosition(lowerSentence, keywords) ==
  LET hits   == { k \in 1..Len(keywords) : includes(lowerSentence, keywords[k]) }
      pos(k) == Min({ i \in 1..Len(lowerSentence) :
                        literalAt(lowerSentence, i, keywords[k]) })
  IN  IF hits = {} THEN 0
      ELSE Min({ k \in hits : \A j \in hits : pos(k) <= pos(j) })

\* the inner for loop: the index of the first keyword, in list order, the
\* lower-cased sentence includes, or 0 when it includes none
firstKeyword(lowerSentence, keywords) ==
  LET hits == { k \in 1..Len(keywords) : includes(lowerSentence, keywords[k]) }
  IN  IF hits = {} THEN 0 ELSE Min(hits)

\* decisionsOf recording the sentence as it was split, without trim()
RECURSIVE decisionsOfUntrimmed(_)
decisionsOfUntrimmed(sentences) ==
  IF sentences = <<>> THEN <<>>
  ELSE LET sentence == Head(sentences)
           k        == firstKeyword(toLowerCase(sentence), decisionKeywords)
       IN  IF k # 0
           THEN << [decision |-> sentence, context |-> decisionKeywords[k]] >>
                  \o decisionsOfUntrimmed(Tail(sentences))
           ELSE decisionsOfUntrimmed(Tail(sentences))

\* the list `decisions` after the loop over the sentences, before it is cut
RECURSIVE decisionsOf(_)
decisionsOf(sentences) ==
  IF sentences = <<>> THEN <<>>
  ELSE LET sentence == Head(sentences)
           k        == firstKeyword(toLowerCase(sentence), decisionKeywords)
       IN  IF k # 0
           THEN << [decision |-> trim(sentence), context |-> decisionKeywords[k]] >>
                  \o decisionsOf(Tail(sentences))
           ELSE decisionsOf(Tail(sentences))

decisionsAll(transcript) == decisionsOf(splitSentences(transcript))

MaxDecisions == 5

extractDecisions(transcript) == slice0(decisionsAll(transcript), MaxDecisions)

\* severityOf with the two tests in the opposite order
severityOfLowFirst(lowerSentence) ==
  IF includes(lowerSentence, "minor") \/ includes(lowerSentence, "small")
  THEN "low"
  ELSE IF includes(lowerSentence, "critical") \/ includes(lowerSentence, "urgent")
  THEN "high"
  ELSE "medium"

\* the severity assessment of one lower-cased sentence
severityOf(lowerSentence) ==
  IF includes(lowerSentence, "critical") \/ includes(lowerSentence, "urgent")
  THEN "high"
  ELSE IF includes(lowerSentence, "minor") \/ includes(lowerSentence, "small")
  THEN "low"
  ELSE "medium"

RECURSIVE risksOf(_)
risksOf(sentences) ==
  IF sentences = <<>> THEN <<>>
  ELSE LET sentence      == Head(sentences)
           lowerSentence == toLowerCase(sentence)
       IN  IF firstKeyword(lowerSentence, riskKeywords) # 0
           THEN << [risk |-> trim(sentence), severity |-> severityOf(lowerSentence)] >>
                  \o risksOf(Tail(sentences))
           ELSE risksOf(Tail(sentences))

risksAll(transcript) == risksOf(splitSentences(transcript))

MaxRisks == 5

extractRisks(transcript) == slice0(risksAll(transcript), MaxRisks)

(***************************************************************************)
(* extractDates: the four date patterns                                    *)
(***************************************************************************)
fullMonths ==
  << "January", "February", "March", "April", "May", "June", "July",
     "August", "September", "October", "November", "December" >>

shortMonths ==
  << "Jan", "Feb", "Mar", "Apr", "May", "Jun", "Jul", "Aug", "Sep", "Oct",
     "Nov", "Dec" >>

\* \d{a} sep \d{b} sep \d{4} \b from position i: position after it, or 0
numericTry(s, i, sep, a, b) ==
  IF /\ allIn(s, i, a, DigitChars)
     /\ Ch(s, i + a) = sep
     /\ allIn(s, i + a + 1, b, DigitChars)
     /\ Ch(s, i + a + 1 + b) = sep
     /\ allIn(s, i + a + b + 2, 4, DigitChars)
     /\ Boundary(s, i + a + b + 6)
  THEN i + a + b + 6
  ELSE 0

\* /\b\d{1,2}<sep>\d{1,2}<sep>\d{4}\b/ anchored at i; each \d{1,2} tries two
\* digits before one
numericDateAt(s, i, sep) ==
  IF Boundary(s, i)
  THEN firstMatch(<< numericTry(s, i, sep, 2, 2), numericTry(s, i, sep, 2, 1),
                     numericTry(s, i, sep, 1, 2), numericTry(s, i, sep, 1, 1) >>)
  ELSE 0

\* \s+\d{4}\b from position t; \s+ tries its longest run first
yearAfterSpace(s, t) ==
  LET run == runLen(s, t, SpaceChars)
  IN  firstMatch([k \in 1..run |->
        LET y == t + (run - k + 1)
        IN  IF allIn(s, y, 4, DigitChars) /\ Boundary(s, y + 4) THEN y + 4 ELSE 0])

\* ,?\s+\d{4}\b from position r; the optional comma is tried present first
commaYear(s, r) ==
  firstMatch(<< IF Ch(s, r) = "," THEN yearAfterSpace(s, r + 1) ELSE 0,
                yearAfterSpace(s, r) >>)

\* \d{1,2},?\s+\d{4}\b from position q
dayYear(s, q) ==
  firstMatch(<< IF allIn(s, q, 2, DigitChars) THEN commaYear(s, q + 2) ELSE 0,
                IF allIn(s, q, 1, DigitChars) THEN commaYear(s, q + 1) ELSE 0 >>)

\* \s+\d{1,2},?\s+\d{4}\b from position p
afterMonth(s, p) ==
  LET run == runLen(s, p, SpaceChars)
  IN  firstMatch([k \in 1..run |-> dayYear(s, p + (run - k + 1))])

\* /\b(?:m1|m2|...)\s+\d{1,2},?\s+\d{4}\b/ anchored at i; the alternatives
\* are tried in list order
monthDateAt(s, i, months) ==
  IF Boundary(s, i)
  THEN firstMatch([m \in 1..Len(months) |->
         IF literalAt(s, i, months[m])
         THEN afterMonth(s, i + Len(months[m]))
         ELSE 0])
  ELSE 0

NumDatePatterns == 4

\* datePatterns[pat] anchored at position i
datePatternAt(s, i, pat) ==
  CASE pat = 1 -> numericDateAt(s, i, "/")
    [] pat = 2 -> numericDateAt(s, i, "-")
    [] pat = 3 -> monthDateAt(s, i, fullMonths)
    [] pat = 4 -> monthDateAt(s, i, shortMonths)

\* sentence.match(pattern): all matches of one pattern, left to right
patternMatches(s, pat) ==
  matchesFrom(s, [i \in 1..Len(s) |-> datePatternAt(s, i, pat)], 1)

\* the entries one pattern contributes for one sentence
datesOfPattern(sentence, pat) ==
  LET matches == patternMatches(sentence, pat)
  IN  [k \in 1..Len(matches) |-> [date |-> matches[k], context |-> trim(sentence)]]

\* datesOfSentence with the matches of all patterns in the order of their
\* positions in the sentence
datesOfSentenceByPosition(sentence, pat) ==
  LET at(i) == { p \in pat..NumDatePatterns : datePatternAt(sentence, i, p) # 0 }
      ends  == [i \in 1..Len(sentence) |->
                 IF at(i) = {} THEN 0 ELSE datePatternAt(sentence, i, Min(at(i)))]
      found == matchesFrom(sentence, ends, 1)
  IN  [k \in 1..Len(found) |-> [date |-> found[k], context |-> trim(sentence)]]

\* the loop over datePatterns for one sentence
RECURSIVE datesOfSentence(_, _)
datesOfSentence(sentence, pat) ==
  IF pat > NumDatePatterns THEN <<>>
  ELSE datesOfPattern(sentence, pat) \o datesOfSentence(sentence, pat + 1)

RECURSIVE datesOf(_)
datesOf(sentences) ==
  IF sentences = <<>> THEN <<>>
  ELSE datesOfSentence(Head(sentences), 1) \o datesOf(Tail(sentences))

datesAll(transcript) == datesOf(splitSentences(transcript))

MaxDates == 5

extractDates(transcript) == slice0(datesAll(transcript), MaxDates)

(***************************************************************************)
(* generateSummary and processTranscript                                   *)
(***************************************************************************)
NamesListed == 3
KeySentenceMinLen == 20
SentencesPerMinute == 10

\* generateSummary with a singular for one participant
generateSummarySingular(sentences, people, decisions) ==
  LET totalSentences   == Len(sentences)
      participantCount == Len(people)
      decisionCount    == Len(decisions)
      head == "Meeting summary: This meeting involved "
                \o (IF participantCount = 1
                    THEN "1 participant"
                    ELSE IF participantCount > 0
                    THEN numToString(participantCount) \o " participants"
                    ELSE "multiple participants")
      including ==
        IF Len(people) > 0
        THEN " including " \o join(slice0(people, NamesListed), ", ")
               \o (IF Len(people) > NamesListed
                   THEN " and " \o numToString(Len(people) - NamesListed) \o " others"
                   ELSE "")
        ELSE ""
      decided ==
        IF decisionCount > 0
        THEN numToString(decisionCount) \o " key decision"
               \o (IF decisionCount > 1 THEN "s were" ELSE " was")
               \o " made during the discussion. "
        ELSE ""
      midPoint    == floorDiv(totalSentences, 2)
      \* sentences[midPoint]?.trim(): the array is 0-based
      keySentence == IF midPoint + 1 <= totalSentences
                     THEN trim(sentences[midPoint + 1]) ELSE ""
      keyPoint ==
        IF totalSentences > 2 /\ keySentence # "" /\ Len(keySentence) > KeySentenceMinLen
        THEN "Key discussion point: " \o keySentence \o ". "
        ELSE ""
  IN  head \o including \o ". " \o decided \o keyPoint
        \o "The meeting covered various topics and lasted for approximately "
        \o numToString(ceilDiv(totalSentences, SentencesPerMinute))
        \o " minutes of discussion."

generateSummary(sentences, people, decisions) ==
  LET totalSentences   == Len(sentences)
      participantCount == Len(people)
      decisionCount    == Len(decisions)
      head == "Meeting summary: This meeting involved "
                \o (IF participantCount > 0
                    THEN numToString(participantCount) \o " participants"
                    ELSE "multiple participants")
      including ==
        IF Len(people) > 0
        THEN " including " \o join(slice0(people, NamesListed), ", ")
               \o (IF Len(people) > NamesListed
                   THEN " and " \o numToString(Len(people) - NamesListed) \o " others"
                   ELSE "")
        ELSE ""
      decided ==
        IF decisionCount > 0
        THEN numToString(decisionCount) \o " key decision"
               \o (IF decisionCount > 1 THEN "s were" ELSE " was")
               \o " made during the discussion. "
        ELSE ""
      midPoint    == floorDiv(totalSentences, 2)
      \* sentences[midPoint]?.trim(): the array is 0-based
      keySentence == IF midPoint + 1 <= totalSentences
                     THEN trim(sentences[midPoint + 1]) ELSE ""
      keyPoint ==
        IF totalSentences > 2 /\ keySentence # "" /\ Len(keySentence) > KeySentenceMinLen
        THEN "Key discussion point: " \o keySentence \o ". "
        ELSE ""
  IN  head \o including \o ". " \o decided \o keyPoint
        \o "The meeting covered various topics and lasted for approximately "
        \o numToString(ceilDiv(totalSentences, SentencesPerMinute))
        \o " minutes of discussion."

\* computeTranscript handing the lists before their cut to generateSummary
computeTranscriptUncutCounts(transcript) ==
  LET sentences == sentencesOf(transcript)
      people    == extractPeople(transcript)
      decisions == extractDecisions(transcript)
      risks     == extractRisks(transcript)
      dates     == extractDates(transcript)
  IN  [ summary_text |-> generateSummary(sentences, peopleAll(transcript),
                                         decisionsAll(transcript)),
        entities     |-> [ decisions |-> decisions, risks |-> risks,
                           people |-> people, dates |-> dates ] ]

\* the body of processTranscript after its timer (its `words` array is never
\* read)
computeTranscript(transcript) ==
  LET sentences == sentencesOf(transcript)
      people    == extractPeople(transcript)
      decisions == extractDecisions(transcript)
      risks     == extractRisks(transcript)
      dates     == extractDates(transcript)
  IN  [ summary_text |-> generateSummary(sentences, people, decisions),
        entities     |-> [ decisions |-> decisions, risks |-> risks,
                           people |-> people, dates |-> dates ] ]

(***************************************************************************)
(* The notes table and the handlers that write it.                         *)
(*                                                                         *)
(* A nullable column or an optional input holds NULL or Some(value).       *)
(***************************************************************************)
NULL == <<>>
Some(v) == <<v>>

VARIABLES
  notes,        \* the notes table: note id -> row
  writer,       \* history: who last wrote summary_text/entities of a row
  calls,        \* the finaliseMeeting invocations, one record per call
  now,          \* the clock behind new Date() and defaultNow()
  updatesDone,  \* the number of updateNote calls so far
  workspaces,   \* the workspaces table: workspace id -> row
  listed        \* the last getWorkspaces call: its userId and what it resolved to

vars == <<notes, writer, calls, now, updatesDone, workspaces, listed>>

\* the ids the database hands out, in the order it hands them out
NoteIds == <<"n1", "n2">>
NoteIdSet == { NoteIds[i] : i \in 1..Len(NoteIds) }
CallOrder == <<"c1", "c2">>
CallIds == { CallOrder[i] : i \in 1..Len(CallOrder) }
MaxTime == 1
MaxUpdates == 1

\* rows of the users and workspaces tables the notes refer to
ExistingWorkspaces == {"w1"}
ExistingUsers == {"u1", "u2"}

Transcript1 == "John: We decided to ship Friday. There is a risk of delay."
Transcript2 == "Sarah agreed. Minor issue on 03/15/2024."

\* x || null of createNote: undefined, null and "" all become null
orNull(input, field) ==
  IF field \notin DOMAIN input THEN NULL
  ELSE IF input[field] = NULL \/ input[field] = Some("") THEN NULL
  ELSE input[field]

\* newNoteRow with empty entities in place of null
newNoteRowEmptyEntities(id, input, time) ==
  [ id              |-> id,
    workspace_id    |-> input.workspace_id,
    title           |-> input.title,
    source          |-> input.source,
    content_md      |-> orNull(input, "content_md"),
    transcript_text |-> orNull(input, "transcript_text"),
    summary_text    |-> NULL,
    entities        |-> Some([decisions |-> <<>>, risks |-> <<>>,
                              people |-> <<>>, dates |-> <<>>]),
    created_by      |-> input.created_by,
    created_at      |-> time,
    updated_at      |-> time ]

\* the row the INSERT of createNote stores
newNoteRow(id, input, time) ==
  [ id              |-> id,
    workspace_id    |-> input.workspace_id,
    title           |-> input.title,
    source          |-> input.source,
    content_md      |-> orNull(input, "content_md"),
    transcript_text |-> orNull(input, "transcript_text"),
    summary_text    |-> NULL,
    entities        |-> NULL,
    created_by      |-> input.created_by,
    created_at      |-> time,
    updated_at      |-> time ]

\* the foreign keys of the notes table hold for the input
foreignKeysHold(input) ==
  input.workspace_id \in ExistingWorkspaces /\ input.created_by \in ExistingUsers

ForeignKeyError == "insert or update on table notes violates foreign key constraint"
StorageError == "storage unavailable"

\* the next id the database generates, or NULL when the model's ids are used up
nextNoteId ==
  LET free == { i \in 1..Len(NoteIds) : NoteIds[i] \notin DOMAIN notes }
  IN  IF free = {} THEN NULL ELSE Some(NoteIds[Min(free)])

\* what createNote resolves to for the input: the inserted row, or the error
\* the INSERT throws
createNoteResult(input) ==
  IF foreignKeysHold(input)
  THEN [error |-> NULL, note |-> Some(newNoteRow(nextNoteId[1], input, now))]
  ELSE [error |-> Some(ForeignKeyError), note |-> NULL]

CreateNote(input) ==
  /\ nextNoteId # NULL
  /\ LET result == createNoteResult(input)
     IN  IF result.error = NULL
         THEN /\ notes' = notes @@ (result.note[1].id :> result.note[1])
              /\ writer' = writer @@ (result.note[1].id :> "createNote")
         ELSE UNCHANGED <<notes, writer>>
  /\ UNCHANGED <<calls, now, updatesDone, workspaces, listed>>

\* patched with a test for a value in place of `!== undefined`: an explicit
\* null keeps the stored value
patchedTruthy(row, input, field) ==
  IF field \in DOMAIN input /\ input[field] # NULL
  THEN input[field] ELSE row[field]

\* one column of the SET clause updateNote builds: the input's value when the
\* input has the field, the stored value otherwise
patched(row, input, field) ==
  IF field \in DOMAIN input THEN input[field] ELSE row[field]

\* updatedRow with the source column in the SET clause, reset to its default
updatedRowResetsSource(row, input, time) ==
  [ row EXCEPT
      !.updated_at      = time,
      !.source          = "manual",
      !.title           = IF "title" \in DOMAIN input THEN input.title ELSE @,
      !.content_md      = patched(row, input, "content_md"),
      !.transcript_text = patched(row, input, "transcript_text"),
      !.summary_text    = patched(row, input, "summary_text"),
      !.entities        = patched(row, input, "entities") ]

\* the row after the UPDATE of updateNote
updatedRow(row, input, time) ==
  [ row EXCEPT
      !.updated_at      = time,
      !.title           = IF "title" \in DOMAIN input THEN input.title ELSE @,
      !.content_md      = patched(row, input, "content_md"),
      !.transcript_text = patched(row, input, "transcript_text"),
      !.summary_text    = patched(row, input, "summary_text"),
      !.entities        = patched(row, input, "entities") ]

notFoundMessage(id) == "Note with id " \o id \o " not found"

\* what updateNote resolves to for the input: the row the UPDATE returns, or
\* the error thrown when it returns none
updateNoteResult(input) ==
  IF input.id \in DOMAIN notes
  THEN [error |-> NULL, note |-> Some(updatedRow(notes[input.id], input, now))]
  ELSE [error |-> Some(notFoundMessage(input.id)), note |-> NULL]

UpdateNote(input) ==
  /\ updatesDone < MaxUpdates
  /\ updatesDone' = updatesDone + 1
  /\ LET result == updateNoteResult(input)
     IN  IF result.error = NULL
         THEN /\ notes' = [notes EXCEPT ![input.id] = result.note[1]]
              /\ writer' = IF {"summary_text", "entities"} \cap DOMAIN input # {}
                           THEN [writer EXCEPT ![input.id] = "updateNote"]
                           ELSE writer
         ELSE UNCHANGED <<notes, writer>>
  /\ UNCHANGED <<calls, now, workspaces, listed>>

Tick ==
  /\ now < MaxTime
  /\ now' = now + 1
  /\ UNCHANGED <<notes, writer, calls, updatesDone, workspaces, listed>>

(***************************************************************************)
(* The workspaces table, createWorkspace and getWorkspaces.                *)
(***************************************************************************)
MaxWorkspaces == 3

\* the ids the database hands out for workspaces: w1, w2, ...
WorkspaceId(n) == "w" \o numToString(n)

\* settings: input.settings || {} and the column default: the empty object
EmptyObject == <<>>

\* the workspace the notes of the model belong to
SeedWorkspaces ==
  ("w1" :> [ id |-> "w1", owner_id |-> "u1", name |-> "Home",
             settings |-> EmptyObject, created_at |-> 0 ])

userNotFoundMessage(id) == "User with id " \o id \o " not found"

\* the row the INSERT of createWorkspace stores; created_at is defaultNow()
newWorkspaceRow(id, input, time) ==
  [ id         |-> id,
    owner_id   |-> input.owner_id,
    name       |-> input.name,
    settings   |-> IF "settings" \in DOMAIN input THEN input.settings ELSE EmptyObject,
    created_at |-> time ]

\* what createWorkspace resolves to: the inserted row, or the error thrown
\* when the owner is not in the users table
createWorkspaceResult(input) ==
  IF input.owner_id \in ExistingUsers
  THEN [ error |-> NULL,
         workspace |-> Some(newWorkspaceRow(WorkspaceId(Cardinality(DOMAIN workspaces) + 1),
                                            input, now)) ]
  ELSE [ error |-> Some(userNotFoundMessage(input.owner_id)), workspace |-> NULL ]

CreateWorkspace(input) ==
  /\ Cardinality(DOMAIN workspaces) < MaxWorkspaces
  /\ LET result == createWorkspaceResult(input)
     IN  IF result.error = NULL
         THEN workspaces' = workspaces @@ (result.workspace[1].id :> result.workspace[1])
         ELSE UNCHANGED workspaces
  /\ UNCHANGED <<notes, writer, calls, now, updatesDone, listed>>

\* the rows the WHERE clause of getWorkspaces selects
ownedBy(userId) == { id \in DOMAIN workspaces : workspaces[id].owner_id = userId }

\* the orders in which a SELECT without ORDER BY may return rows: any
RowOrders(ids) ==
  { order \in [1..Cardinality(ids) -> ids] :
      \A i, j \in 1..Cardinality(ids) : i # j => order[i] # order[j] }

\* getWorkspaces: the SELECT answers and the handler maps the rows (the cast
\* of settings changes no value)
GetWorkspaces(userId) ==
  /\ \E order \in RowOrders(ownedBy(userId)) :
       listed' = Some([ userId  |-> userId,
                        results |-> [i \in 1..Len(order) |-> workspaces[order[i]]] ])
  /\ UNCHANGED <<notes, writer, calls, now, updatesDone, workspaces>>

(***************************************************************************)
(* finaliseMeeting, one action per stretch of code between two awaits.     *)
(***************************************************************************)
IdleCall ==
  [ pc        |-> "idle",   \* idle, select, timer, update, updated, rejected, or
                            \* returned: the call resolved to processedData
    note_id   |-> "",       \* input.note_id
    rows      |-> NULL,     \* the rows of the SELECT, once it has answered
    processed |-> NULL,     \* processedData
    stamp     |-> 0,        \* the new Date() of the SET clause
    selects   |-> 0,        \* history: SELECT statements this call issued
    updates   |-> 0,        \* history: UPDATE statements this call issued
    error     |-> NULL ]    \* the error the call rejected with

\* finaliseCheck with the transcript check ahead of the source check
finaliseCheckTranscriptFirst(rows, note_id) ==
  IF Len(rows) = 0
  THEN Some(notFoundMessage(note_id))
  ELSE LET note == rows[1]
       IN  IF \/ note.transcript_text = NULL
              \/ note.transcript_text[1] = ""
              \/ trim(note.transcript_text[1]) = ""
           THEN Some("Note must have transcript text to finalize")
           ELSE IF note.source # "meeting"
                THEN Some("Note must be from a meeting source to finalize")
                ELSE NULL

\* finaliseCheck without the trim() of the transcript check
finaliseCheckNoTrim(rows, note_id) ==
  IF Len(rows) = 0
  THEN Some(notFoundMessage(note_id))
  ELSE LET note == rows[1]
       IN  IF note.source # "meeting"
           THEN Some("Note must be from a meeting source to finalize")
           ELSE IF note.transcript_text = NULL \/ note.transcript_text[1] = ""
                THEN Some("Note must have transcript text to finalize")
                ELSE NULL

\* finaliseCheck without the length check: reading notes[0].source of an
\* empty result throws a TypeError
finaliseCheckNoLength(rows, note_id) ==
  IF Len(rows) = 0
  THEN Some("Cannot read properties of undefined (reading 'source')")
  ELSE LET note == rows[1]
       IN  IF note.source # "meeting"
           THEN Some("Note must be from a meeting source to finalize")
           ELSE IF \/ note.transcript_text = NULL
                   \/ note.transcript_text[1] = ""
                   \/ trim(note.transcript_text[1]) = ""
                THEN Some("Note must have transcript text to finalize")
                ELSE NULL

\* finaliseCheck with a fourth check that refuses a note already processed
finaliseCheckOnce(rows, note_id) ==
  IF Len(rows) = 0
  THEN Some(notFoundMessage(note_id))
  ELSE LET note == rows[1]
       IN  IF note.source # "meeting"
           THEN Some("Note must be from a meeting source to finalize")
           ELSE IF \/ note.transcript_text = NULL
                   \/ note.transcript_text[1] = ""
                   \/ trim(note.transcript_text[1]) = ""
                THEN Some("Note must have transcript text to finalize")
                ELSE IF note.summary_text # NULL
                     THEN Some("Note is already finalized")
                     ELSE NULL

\* the three checks between the SELECT and processTranscript: the message of
\* the error thrown, or NULL when the note passes
finaliseCheck(rows, note_id) ==
  IF Len(rows) = 0
  THEN Some(notFoundMessage(note_id))
  ELSE LET note == rows[1]
       IN  IF note.source # "meeting"
           THEN Some("Note must be from a meeting source to finalize")
           ELSE IF \/ note.transcript_text = NULL
                   \/ note.transcript_text[1] = ""
                   \/ trim(note.transcript_text[1]) = ""
                THEN Some("Note must have transcript text to finalize")
                ELSE NULL

\* the call is made and the SELECT is sent (the calls are interchangeable:
\* they start in the order of CallOrder)
Invoke(c, id) ==
  /\ calls[c].pc = "idle"
  /\ \A i \in 1..Len(CallOrder) :
       CallOrder[i] = c => \A j \in 1..(i - 1) : calls[CallOrder[j]].pc # "idle"
  /\ calls' = [calls EXCEPT ![c] =
       [@ EXCEPT !.pc = "select", !.note_id = id, !.selects = @ + 1]]
  /\ UNCHANGED <<notes, writer, now, updatesDone, workspaces, listed>>

\* the SELECT runs and the handler resumes: the checks, then processTranscript
\* up to its timer
DbSelect(c) ==
  /\ calls[c].pc = "select"
  /\ LET id    == calls[c].note_id
         rows  == IF id \in DOMAIN notes THEN <<notes[id]>> ELSE <<>>
         error == finaliseCheck(rows, id)
     IN  calls' = [calls EXCEPT ![c] =
           [@ EXCEPT !.rows = Some(rows),
                     !.error = error,
                     !.pc = IF error = NULL THEN "timer" ELSE "rejected"]]
  /\ UNCHANGED <<notes, writer, now, updatesDone, workspaces, listed>>

\* the SELECT fails: the catch block rethrows the same error
DbSelectFails(c) ==
  /\ calls[c].pc = "select"
  /\ calls' = [calls EXCEPT ![c] =
       [@ EXCEPT !.error = Some(StorageError), !.pc = "rejected"]]
  /\ UNCHANGED <<notes, writer, now, updatesDone, workspaces, listed>>

\* the value processTranscript resolves to; for the transcripts of the
\* handlers' inputs it is computed once and looked up
KnownTranscripts == {Transcript1, Transcript2}
ProcessedTable == [t \in KnownTranscripts |-> computeTranscript(t)]
processTranscript(transcript) ==
  IF transcript \in KnownTranscripts THEN ProcessedTable[transcript]
  ELSE computeTranscript(transcript)

\* Process with a module-level memo of the last result, shared by the calls
ProcessSharedMemo(c) ==
  /\ calls[c].pc = "timer"
  /\ LET done == { d \in CallIds : calls[d].processed # NULL }
     IN  calls' = [calls EXCEPT ![c] =
           [@ EXCEPT !.processed =
                       IF done # {}
                       THEN calls[CHOOSE d \in done : TRUE].processed
                       ELSE Some(processTranscript(calls[c].rows[1][1].transcript_text[1])),
                     !.stamp = now,
                     !.updates = @ + 1,
                     !.pc = "update"]]
  /\ UNCHANGED <<notes, writer, now, updatesDone, workspaces, listed>>

\* Process with one more await between the extraction and the UPDATE
ProcessYieldsBeforeUpdate(c) ==
  /\ calls[c].pc = "timer"
  /\ calls' = [calls EXCEPT ![c] =
       IF @.processed = NULL
       THEN [@ EXCEPT !.processed =
                        Some(processTranscript(calls[c].rows[1][1].transcript_text[1]))]
       ELSE [@ EXCEPT !.stamp = now, !.updates = @ + 1, !.pc = "update"]]
  /\ UNCHANGED <<notes, writer, now, updatesDone, workspaces, listed>>

\* Process without the `|| []` behind transcript.match(namePattern): a
\* transcript without a name match throws a TypeError
ProcessNoMatchThrows(c) ==
  /\ calls[c].pc = "timer"
  /\ LET transcript == calls[c].rows[1][1].transcript_text[1]
     IN  calls' = [calls EXCEPT ![c] =
           IF nameMatches(transcript) = <<>>
           THEN [@ EXCEPT !.error = Some("Cannot read properties of null (reading 'filter')"),
                          !.pc = "rejected"]
           ELSE [@ EXCEPT !.processed = Some(processTranscript(transcript)),
                          !.stamp = now,
                          !.updates = @ + 1,
                          !.pc = "update"]]
  /\ UNCHANGED <<notes, writer, now, updatesDone, workspaces, listed>>

\* Process that reuses the summary and entities the fetched row already holds
ProcessCached(c) ==
  /\ calls[c].pc = "timer"
  /\ LET note == calls[c].rows[1][1]
     IN  calls' = [calls EXCEPT ![c] =
           [@ EXCEPT !.processed =
                       IF note.summary_text # NULL /\ note.entities # NULL
                       THEN Some([summary_text |-> note.summary_text[1],
                                  entities |-> note.entities[1]])
                       ELSE Some(processTranscript(note.transcript_text[1])),
                     !.stamp = now,
                     !.updates = @ + 1,
                     !.pc = "update"]]
  /\ UNCHANGED <<notes, writer, now, updatesDone, workspaces, listed>>

\* the timer fires: the rest of processTranscript, then the UPDATE is sent
Process(c) ==
  /\ calls[c].pc = "timer"
  /\ calls' = [calls EXCEPT ![c] =
       [@ EXCEPT !.processed = Some(processTranscript(calls[c].rows[1][1].transcript_text[1])),
                 !.stamp = now,
                 !.updates = @ + 1,
                 !.pc = "update"]]
  /\ UNCHANGED <<notes, writer, now, updatesDone, workspaces, listed>>

\* finalisedRow with entities missing from the SET clause
finalisedRowSummaryOnly(row, processedData, stamp) ==
  [ row EXCEPT !.summary_text = Some(processedData.summary_text),
               !.updated_at   = stamp ]

\* the row after the UPDATE of finaliseMeeting
finalisedRow(row, processedData, stamp) ==
  [ row EXCEPT !.summary_text = Some(processedData.summary_text),
               !.entities     = Some(processedData.entities),
               !.updated_at   = stamp ]

\* DbUpdate as two statements, summary_text first and entities second
DbUpdateInTwoStatements(c) ==
  /\ calls[c].pc = "update"
  /\ LET id == calls[c].note_id
         processedData == calls[c].processed[1]
     IN  IF id \in DOMAIN notes /\ writer[id] # c
         THEN /\ notes' = [notes EXCEPT ![id] =
                   [@ EXCEPT !.summary_text = Some(processedData.summary_text),
                             !.updated_at = calls[c].stamp]]
              /\ writer' = [writer EXCEPT ![id] = c]
              /\ UNCHANGED calls
         ELSE /\ IF id \in DOMAIN notes
                 THEN notes' = [notes EXCEPT ![id] =
                        finalisedRow(@, processedData, calls[c].stamp)]
                 ELSE UNCHANGED notes
              /\ UNCHANGED writer
              /\ calls' = [calls EXCEPT ![c] = [@ EXCEPT !.pc = "updated"]]
  /\ UNCHANGED <<now, updatesDone, workspaces, listed>>

\* DbUpdate that writes the fetched row back with the three new values
DbUpdateWholeRow(c) ==
  /\ calls[c].pc = "update"
  /\ LET id == calls[c].note_id
     IN  IF id \in DOMAIN notes
         THEN /\ notes' = [notes EXCEPT ![id] =
                   finalisedRow(calls[c].rows[1][1], calls[c].processed[1], calls[c].stamp)]
              /\ writer' = [writer EXCEPT ![id] = c]
         ELSE UNCHANGED <<notes, writer>>
  /\ calls' = [calls EXCEPT ![c] = [@ EXCEPT !.pc = "updated"]]
  /\ UNCHANGED <<now, updatesDone, workspaces, listed>>

\* the UPDATE runs
DbUpdate(c) ==
  /\ calls[c].pc = "update"
  /\ LET id == calls[c].note_id
     IN  IF id \in DOMAIN notes
         THEN /\ notes' = [notes EXCEPT ![id] =
                   finalisedRow(@, calls[c].processed[1], calls[c].stamp)]
              /\ writer' = [writer EXCEPT ![id] = c]
         ELSE UNCHANGED <<notes, writer>>
  /\ calls' = [calls EXCEPT ![c] = [@ EXCEPT !.pc = "updated"]]
  /\ UNCHANGED <<now, updatesDone, workspaces, listed>>

\* DbUpdateFails with the error wrapped in a new one
DbUpdateFailsWrapped(c) ==
  /\ calls[c].pc = "update"
  /\ calls' = [calls EXCEPT ![c] =
       [@ EXCEPT !.error = Some("Meeting finalization failed: " \o StorageError),
                 !.pc = "rejected"]]
  /\ UNCHANGED <<notes, writer, now, updatesDone, workspaces, listed>>

\* DbUpdateFails with one more attempt before it gives up
DbUpdateRetries(c) ==
  /\ calls[c].pc = "update"
  /\ calls' = [calls EXCEPT ![c] =
       IF @.updates < 2
       THEN [@ EXCEPT !.updates = @ + 1]
       ELSE [@ EXCEPT !.error = Some(StorageError), !.pc = "rejected"]]
  /\ UNCHANGED <<notes, writer, now, updatesDone, workspaces, listed>>

\* the UPDATE fails: the catch block rethrows the same error
DbUpdateFails(c) ==
  /\ calls[c].pc = "update"
  /\ calls' = [calls EXCEPT ![c] =
       [@ EXCEPT !.error = Some(StorageError), !.pc = "rejected"]]
  /\ UNCHANGED <<notes, writer, now, updatesDone, workspaces, listed>>

\* the handler resumes after the UPDATE and returns processedData
Return(c) ==
  /\ calls[c].pc = "updated"
  /\ calls' = [calls EXCEPT ![c] =
       [@ EXCEPT !.pc = "returned"]]
  /\ UNCHANGED <<notes, writer, now, updatesDone, workspaces, listed>>

\* the steps of one call while the database answers
Finalise(c) ==
  \/ \E id \in NoteIdSet : Invoke(c, id)
  \/ DbSelect(c)
  \/ Process(c)
  \/ DbUpdate(c)
  \/ Return(c)

\* the steps at which the database fails the call
FinaliseFault(c) ==
  \/ DbSelectFails(c)
  \/ DbUpdateFails(c)

(***************************************************************************)
(* The inputs of the model and its specifications.                         *)
(***************************************************************************)
BaseInput(source) ==
  [workspace_id |-> "w1", title |-> "Standup", source |-> source, created_by |-> "u1"]

WithTranscript(input, t) == input @@ [transcript_text |-> t]

ManualEntities ==
  [decisions |-> <<>>, risks |-> <<>>, people |-> <<"Zed">>, dates |-> <<>>]

Init ==
  /\ notes = <<>>
  /\ writer = <<>>
  /\ calls = [c \in CallIds |-> IdleCall]
  /\ now = 0
  /\ updatesDone = 0
  /\ workspaces = SeedWorkspaces
  /\ listed = NULL

\* Spec: two notes, two concurrent finaliseMeeting calls, updateNote calls and
\* the clock, over a database that answers every statement.
CreateInputs ==
  { WithTranscript(BaseInput("meeting"), Some(Transcript1)),
    WithTranscript(BaseInput("manual"), Some(Transcript1)) }

PatchFields ==
  { [transcript_text |-> Some(Transcript2)],
    [summary_text |-> Some("Manual summary"), entities |-> Some(ManualEntities)] }

\* every patch for every id
UpdateInputs == { [id |-> id] @@ p : id \in NoteIdSet, p \in PatchFields }

Next ==
  \/ \E input \in CreateInputs : CreateNote(input)
  \/ \E input \in UpdateInputs : UpdateNote(input)
  \/ Tick
  \/ \E c \in CallIds : Finalise(c)

Spec == Init /\ [][Next]_vars

\* GateSpec: one finaliseMeeting call over notes of every source with every
\* kind of transcript (absent, null, empty, blank, text), over a database
\* that may fail a statement.
GateCreateInputs ==
  { WithTranscript(BaseInput(source), t) :
      source \in {"manual", "meeting", "import"},
      t \in {NULL, Some(""), Some(" \n\t"), Some(Transcript1)} }
    \cup { BaseInput("meeting"), BaseInput("import"),
           [BaseInput("meeting") EXCEPT !.workspace_id = "w0"] }

GateUpdateInputs ==
  { [id |-> id, transcript_text |-> t] :
      id \in NoteIdSet, t \in {NULL, Some(""), Some("  "), Some(Transcript2)} }

GateNext ==
  \/ \E input \in GateCreateInputs : CreateNote(input)
  \/ \E input \in GateUpdateInputs : UpdateNote(input)
  \/ Finalise(CallOrder[1])
  \/ FinaliseFault(CallOrder[1])

GateSpec == Init /\ [][GateNext]_vars

\* ExtractSpec: one finaliseMeeting call over one meeting note whose
\* transcript is any text of up to MaxFrags fragments.
Fragments ==
  << "Monday John Smith discussed the plan with The Committee.",
     "We decided and also agreed on the plan. Bob resolved it. Action item for Carol.",
     "We agreed and then DECIDED it! Dan concluded. Nothing else? Eve will do it",
     "A critical but minor risk. Urgent small issue. Minor concern. One problem.",
     "Due 03/15/2024 or 3-5-2024. Risky on Jan 5, 2024. See you Friday.",
     "Ann decided a risk 1/1/2024. Ben agreed an issue 1/2/2024. "
       \o "Cal resolved a problem 1/3/2024. Dee and Eli concluded a concern 1/4/2024. "
       \o "Fay and Gus determined a blocker 1/5/2024. "
       \o "Hal, Ian, Jo and Kai will do the obstacle 1/6/2024." >>

MaxFrags == 2

\* the sequences of at most n fragment numbers
RECURSIVE FragSeqs(_)
FragSeqs(n) ==
  IF n = 0 THEN {<<>>}
  ELSE LET shorter == FragSeqs(n - 1)
       IN  shorter \cup { Append(q, f) : q \in shorter, f \in 1..Len(Fragments) }

TextPool ==
  { join([i \in 1..Len(q) |-> Fragments[q[i]]], " ") : q \in FragSeqs(MaxFrags) \ {<<>>} }

ExtractInit ==
  /\ \E t \in TextPool :
       notes = (NoteIds[1] :>
                  newNoteRow(NoteIds[1], WithTranscript(BaseInput("meeting"), Some(t)), 0))
  /\ writer = (NoteIds[1] :> "createNote")
  /\ calls = [c \in CallIds |-> IdleCall]
  /\ now = 0
  /\ updatesDone = 0
  /\ workspaces = SeedWorkspaces
  /\ listed = NULL

ExtractNext == Finalise(CallOrder[1])

ExtractSpec == ExtractInit /\ [][ExtractNext]_vars

\* TextSpec: one finaliseMeeting call over one meeting note whose transcript
\* is any text of up to MaxFrags of the fragments below: dates of all four
\* patterns in and out of pattern order, punctuation only, and no names.
TextFragments ==
  << "Meeting on 03/15/2024 and deadline 04-01-2024 and review on January 5, 2024.",
     "Call on Jan 5, 2024 after 1-2-2024 and 3/4/2024; then May 5, 2024",
     "Due 6/7/2024 and 8/9/2024!",
     "no date here. sept 5, 2024 or 12/25/24?",
     "...",
     "no names here" >>

RECURSIVE TextFragSeqs(_)
TextFragSeqs(n) ==
  IF n = 0 THEN {<<>>}
  ELSE LET shorter == TextFragSeqs(n - 1)
       IN  shorter \cup { Append(q, f) : q \in shorter, f \in 1..Len(TextFragments) }

EdgeTextPool ==
  { join([i \in 1..Len(q) |-> TextFragments[q[i]]], " ") :
      q \in TextFragSeqs(MaxFrags) \ {<<>>} }

TextInit ==
  /\ \E t \in EdgeTextPool :
       notes = (NoteIds[1] :>
                  newNoteRow(NoteIds[1], WithTranscript(BaseInput("meeting"), Some(t)), 0))
  /\ writer = (NoteIds[1] :> "createNote")
  /\ calls = [c \in CallIds |-> IdleCall]
  /\ now = 0
  /\ updatesDone = 0
  /\ workspaces = SeedWorkspaces
  /\ listed = NULL

TextNext == Finalise(CallOrder[1])

TextSpec == TextInit /\ [][TextNext]_vars

\* FrameSpec: two notes, two finaliseMeeting calls and updateNote calls that
\* change title, content_md or transcript_text.
FrameUpdateInputs ==
  { [id |-> id] @@ p :
      id \in NoteIdSet,
      p \in { [title |-> "Retro"],
              [content_md |-> Some("# Notes")],
              [transcript_text |-> Some(Transcript2)] } }

FrameNext ==
  \/ \E input \in CreateInputs : CreateNote(input)
  \/ \E input \in FrameUpdateInputs : UpdateNote(input)
  \/ \E c \in CallIds : Finalise(c)

FrameSpec == Init /\ [][FrameNext]_vars

\* NotesSpec: createNote with every source, with and without the optional
\* fields, updateNote with every kind of patch (empty, a value, an explicit
\* null) for stored and missing ids, the clock, and one finaliseMeeting call.
NotesCreateInputs ==
  { BaseInput(source) : source \in {"manual", "meeting", "import"} }
    \cup { BaseInput("meeting")
             @@ [content_md |-> Some("# Agenda"), transcript_text |-> Some(Transcript1)],
           BaseInput("import") @@ [content_md |-> Some(""), transcript_text |-> NULL],
           [BaseInput("manual") EXCEPT !.created_by = "u0"] }

NotesPatches ==
  { <<>>,
    [title |-> "Retro"],
    [content_md |-> NULL],
    [content_md |-> Some("# Notes"), transcript_text |-> NULL],
    [summary_text |-> Some("Manual summary"), entities |-> Some(ManualEntities)],
    [summary_text |-> NULL, entities |-> NULL] }

NotesUpdateInputs == { [id |-> id] @@ p : id \in NoteIdSet, p \in NotesPatches }

NotesNext ==
  \/ \E input \in NotesCreateInputs : CreateNote(input)
  \/ \E input \in NotesUpdateInputs : UpdateNote(input)
  \/ Tick
  \/ Finalise(CallOrder[1])

NotesSpec == Init /\ [][NotesNext]_vars

\* RepeatSpec: one stored meeting note that two finaliseMeeting calls, the
\* updateNote calls and the clock work on.
RepeatInit ==
  /\ notes = (NoteIds[1] :>
                newNoteRow(NoteIds[1],
                           WithTranscript(BaseInput("meeting"), Some(Transcript1)), 0))
  /\ writer = (NoteIds[1] :> "createNote")
  /\ calls = [c \in CallIds |-> IdleCall]
  /\ now = 0
  /\ updatesDone = 0
  /\ workspaces = SeedWorkspaces
  /\ listed = NULL

RepeatNext ==
  \/ \E input \in UpdateInputs : UpdateNote(input)
  \/ Tick
  \/ \E c \in CallIds : Finalise(c)

RepeatSpec == RepeatInit /\ [][RepeatNext]_vars

\* PeopleSpec: one finaliseMeeting call over one meeting note whose transcript
\* is any text of up to MaxFrags of the fragments below: repeated names,
\* names next to denylisted words, capitalized words separated by a space, a
\* newline, a tab, two spaces and punctuation, and more than ten names.
NameFragments ==
  << "Ann Lee met Bob on Monday, and later Bob called Ann Lee.",
     "John\nSmith saw Mary\tJones, Al  Gore, Kim-Lee and Tom Cruz.",
     "Ann, Ben, Cal, Dee, Eli, Fay, Gus, Hal, Ian, Jo, Kai, Ben and Lou on Friday.",
     "no names here. The end? May",
     "Sara\n\nOh left.Max stayed with Mr Fox\r\nIda" >>

RECURSIVE NameFragSeqs(_)
NameFragSeqs(n) ==
  IF n = 0 THEN {<<>>}
  ELSE LET shorter == NameFragSeqs(n - 1)
       IN  shorter \cup { Append(q, f) : q \in shorter, f \in 1..Len(NameFragments) }

NameTextPool ==
  { join([i \in 1..Len(q) |-> NameFragments[q[i]]], " ") :
      q \in NameFragSeqs(MaxFrags) \ {<<>>} }

PeopleInit ==
  /\ \E t \in NameTextPool :
       notes = (NoteIds[1] :>
                  newNoteRow(NoteIds[1], WithTranscript(BaseInput("meeting"), Some(t)), 0))
  /\ writer = (NoteIds[1] :> "createNote")
  /\ calls = [c \in CallIds |-> IdleCall]
  /\ now = 0
  /\ updatesDone = 0
  /\ workspaces = SeedWorkspaces
  /\ listed = NULL

PeopleNext == Finalise(CallOrder[1])

PeopleSpec == PeopleInit /\ [][PeopleNext]_vars

\* SummarySpec: one finaliseMeeting call over one meeting note whose
\* transcript is any text of up to MaxFrags of the fragments below: no
\* sentence at all, two sentences around an empty piece, three and four
\* sentences with a middle sentence of 34, 20 and 21 characters, eleven
\* sentences, eleven names with one decision, and six decisions without a name.
SummaryFragments ==
  << "...",
     "Hi. . Ok?!",
     "We met. The budget review went well overall. Then lunch.",
     "A. B.  exactly twenty chars  . D.",
     "A. B. exactly twenty1 chars. D.",
     "a. b. c. d. e. The sixth sentence is the long one. g. h. i. j. k.",
     "Ann, Ben, Cal, Dee, Eli, Fay, Gus, Hal, Ian, Jo and Kai resolved it",
     "decided. . agreed. resolved. concluded. determined. will do" >>

RECURSIVE SummaryFragSeqs(_)
SummaryFragSeqs(n) ==
  IF n = 0 THEN {<<>>}
  ELSE LET shorter == SummaryFragSeqs(n - 1)
       IN  shorter \cup { Append(q, f) : q \in shorter, f \in 1..Len(SummaryFragments) }

SummaryTextPool ==
  { join([i \in 1..Len(q) |-> SummaryFragments[q[i]]], " ") :
      q \in SummaryFragSeqs(MaxFrags) \ {<<>>} }

SummaryInit ==
  /\ \E t \in SummaryTextPool :
       notes = (NoteIds[1] :>
                  newNoteRow(NoteIds[1], WithTranscript(BaseInput("meeting"), Some(t)), 0))
  /\ writer = (NoteIds[1] :> "createNote")
  /\ calls = [c \in CallIds |-> IdleCall]
  /\ now = 0
  /\ updatesDone = 0
  /\ workspaces = SeedWorkspaces
  /\ listed = NULL

SummaryNext == Finalise(CallOrder[1])

SummarySpec == SummaryInit /\ [][SummaryNext]_vars

\* SegmentSpec: one finaliseMeeting call over one meeting note whose
\* transcript is any text of up to MaxFrags of the fragments below: sentences
\* with whitespace around them, empty and whitespace-only pieces between
\* delimiters, keywords and dates at the edges of a sentence, and more than
\* five decisions with whitespace-only pieces between them.
SegmentFragments ==
  << "  We decided to ship on 3/4/2024  .  \n ! Critical risk: Jan 5, 2024 slips?",
     "...",
     "Action item!will do.Minor issue",
     "\tAgreed on 1-2-2024\n. \t. A small problem on May 5, 2024 .",
     "decided. . agreed. . resolved. . concluded. . determined. . will do. . risk. issue",
     "No keyword here. Nothing on 12/25/24 either" >>

RECURSIVE SegmentFragSeqs(_)
SegmentFragSeqs(n) ==
  IF n = 0 THEN {<<>>}
  ELSE LET shorter == SegmentFragSeqs(n - 1)
       IN  shorter \cup { Append(q, f) : q \in shorter, f \in 1..Len(SegmentFragments) }

SegmentTextPool ==
  { join([i \in 1..Len(q) |-> SegmentFragments[q[i]]], " ") :
      q \in SegmentFragSeqs(MaxFrags) \ {<<>>} }

SegmentInit ==
  /\ \E t \in SegmentTextPool :
       notes = (NoteIds[1] :>
                  newNoteRow(NoteIds[1], WithTranscript(BaseInput("meeting"), Some(t)), 0))
  /\ writer = (NoteIds[1] :> "createNote")
  /\ calls = [c \in CallIds |-> IdleCall]
  /\ now = 0
  /\ updatesDone = 0
  /\ workspaces = SeedWorkspaces
  /\ listed = NULL

SegmentNext == Finalise(CallOrder[1])

SegmentSpec == SegmentInit /\ [][SegmentNext]_vars

\* WorkspaceSpec: createWorkspace for known and unknown owners, with and
\* without settings, the clock, and getWorkspaces for every user id.
WorkspaceInputs ==
  { [owner_id |-> owner, name |-> "Team"] : owner \in {"u1", "u2", "u0"} }
    \cup { [owner_id |-> "u1", name |-> "Lab", settings |-> [theme |-> "dark"]] }

UserIds == {"u1", "u2", "u0"}

WorkspaceNext ==
  \/ \E input \in WorkspaceInputs : CreateWorkspace(input)
  \/ \E userId \in UserIds : GetWorkspaces(userId)
  \/ Tick

WorkspaceSpec == Init /\ [][WorkspaceNext]_vars

(***************************************************************************)
(* The claims about finaliseMeeting.                                       *)
(***************************************************************************)
\* the call's SELECT has answered with a row
Fetched(c) == calls[c].rows # NULL /\ Len(calls[c].rows[1]) = 1
FetchedNote(c) == calls[c].rows[1][1]

\* the call rejected with a message that mentions the phrase, in any case
RejectedWith(c, phrase) ==
  /\ calls[c].pc = "rejected"
  /\ calls[c].error # NULL
  /\ includes(toLowerCase(calls[c].error[1]), phrase)

BlankTranscript(note) ==
  \/ note.transcript_text = NULL
  \/ trim(note.transcript_text[1]) = ""

\* C1: a call that fetched a note whose source is manual or import, whatever
\* its transcript_text, has rejected with a message mentioning "meeting
\* source" and has issued no UPDATE.
C1_WrongSourceRejected ==
  \A c \in CallIds :
    (Fetched(c) /\ FetchedNote(c).source \in {"manual", "import"})
      => RejectedWith(c, "meeting source") /\ calls[c].updates = 0

\* a manual or import note without a usable transcript was refused
C1_Witness ==
  \E c \in CallIds :
    /\ Fetched(c)
    /\ FetchedNote(c).source = "import"
    /\ BlankTranscript(FetchedNote(c))
    /\ RejectedWith(c, "meeting source")

\* C2: a call that fetched a meeting note whose transcript_text is null,
\* empty or whitespace only has rejected with a message mentioning
\* "transcript text" and has issued no UPDATE.
C2_BlankTranscriptRejected ==
  \A c \in CallIds :
    (Fetched(c) /\ FetchedNote(c).source = "meeting" /\ BlankTranscript(FetchedNote(c)))
      => RejectedWith(c, "transcript text") /\ calls[c].updates = 0

\* a meeting note whose transcript is whitespace only was refused
C2_Witness ==
  \E c \in CallIds :
    /\ Fetched(c)
    /\ FetchedNote(c).source = "meeting"
    /\ FetchedNote(c).transcript_text # NULL
    /\ FetchedNote(c).transcript_text[1] # ""
    /\ RejectedWith(c, "transcript text")

\* C3: a call whose SELECT answered with no row has rejected with a message
\* mentioning "not found" and has issued no UPDATE, and a step of a call
\* that has fetched no row leaves every note as it is.
C3_MissingNoteRejected ==
  /\ [](\A c \in CallIds :
         (calls[c].rows # NULL /\ calls[c].rows[1] = <<>>)
           => RejectedWith(c, "not found") /\ calls[c].updates = 0)
  /\ [][\A c \in CallIds :
         (calls'[c] # calls[c] /\ ~Fetched(c)') => notes' = notes]_vars

\* a call for an id without note was refused while another note is stored
C3_Witness ==
  \E c \in CallIds :
    /\ calls[c].rows = Some(<<>>)
    /\ calls[c].note_id \notin DOMAIN notes
    /\ notes # <<>>
    /\ RejectedWith(c, "not found")

\* the value the call resolved to, or is about to resolve to
Output(c) == calls[c].processed[1]

\* C4: when a call has returned and it is the last writer of the note's
\* summary_text and entities, the stored summary_text and entities are
\* non-null and equal to the summary_text and entities the call returned.
C4_StoredEqualsReturned ==
  \A c \in CallIds :
    (/\ calls[c].pc = "returned"
     /\ calls[c].note_id \in DOMAIN notes
     /\ writer[calls[c].note_id] = c)
      => LET note == notes[calls[c].note_id]
         IN  /\ note.summary_text # NULL
             /\ note.entities # NULL
             /\ note.summary_text[1] = Output(c).summary_text
             /\ note.entities[1] = Output(c).entities

\* a call returned for a note that was unprocessed when the call fetched it
C4_Witness ==
  \E c \in CallIds :
    /\ calls[c].pc = "returned"
    /\ writer[calls[c].note_id] = c
    /\ FetchedNote(c).summary_text = NULL
    /\ notes[calls[c].note_id].summary_text # NULL

Refinalises(c) ==
  /\ calls[c].pc = "update"
  /\ calls'[c].pc = "updated"
  /\ calls[c].note_id \in DOMAIN notes
  /\ writer[calls[c].note_id] \in CallIds \ {c}
  /\ FetchedNote(writer[calls[c].note_id]).transcript_text
       = FetchedNote(c).transcript_text

\* C6: a call that fetched a meeting note with a transcript and a summary
\* already stored is not rejected, and when its UPDATE runs on a note last
\* finalised from the same transcript, its output equals the earlier call's
\* and the row changes in no column other than updated_at.
C6_RefinaliseIsNoOp ==
  /\ [](\A c \in CallIds :
         (/\ Fetched(c)
          /\ FetchedNote(c).source = "meeting"
          /\ ~BlankTranscript(FetchedNote(c))
          /\ FetchedNote(c).summary_text # NULL)
           => calls[c].pc # "rejected")
  /\ [][\A c \in CallIds :
         Refinalises(c) =>
           LET id == calls[c].note_id
           IN  /\ Output(c) = Output(writer[id])
               /\ [notes'[id] EXCEPT !.updated_at = 0]
                    = [notes[id] EXCEPT !.updated_at = 0]]_vars

\* a second call fetched the note as the first call left it, and returned
C6_Witness ==
  \E c, d \in CallIds :
    /\ c # d
    /\ calls[c].pc = "returned"
    /\ calls[d].pc = "returned"
    /\ calls[c].note_id = calls[d].note_id
    /\ FetchedNote(d).summary_text = NULL
    /\ FetchedNote(c).summary_text = Some(Output(d).summary_text)
    /\ FetchedNote(c).entities = Some(Output(d).entities)
    /\ writer[calls[c].note_id] = c

\* the transcript the call processed and the entities it produced
Extracted(c) == calls[c].processed # NULL
Transcript(c) == FetchedNote(c).transcript_text[1]
Entities(c) == Output(c).entities

\* list is the first cap entries of all, or all of it when it is shorter
IsCutOf(list, all, cap) ==
  /\ Len(list) = (IF Len(all) < cap THEN Len(all) ELSE cap)
  /\ \A i \in 1..Len(list) : list[i] = all[i]

\* C7: the entities a call produced hold at most 10 people, 5 decisions,
\* 5 risks and 5 dates, each list is the first entries of the list before the
\* cut, and the entities stored by the call's UPDATE are the same.
C7_CapsAndPrefixes ==
  \A c \in CallIds :
    Extracted(c) =>
      /\ Len(Entities(c).people) <= 10
      /\ Len(Entities(c).decisions) <= 5
      /\ Len(Entities(c).risks) <= 5
      /\ Len(Entities(c).dates) <= 5
      /\ IsCutOf(Entities(c).people, peopleAll(Transcript(c)), 10)
      /\ IsCutOf(Entities(c).decisions, decisionsAll(Transcript(c)), 5)
      /\ IsCutOf(Entities(c).risks, risksAll(Transcript(c)), 5)
      /\ IsCutOf(Entities(c).dates, datesAll(Transcript(c)), 5)
      /\ calls[c].pc \in {"updated", "returned"}
           => notes[calls[c].note_id].entities = Some(Entities(c))

\* a call returned for a transcript with more than 10 names, 5 decisions,
\* 5 risks and 5 dates, and every list was cut
C7_Witness ==
  \E c \in CallIds :
    /\ calls[c].pc = "returned"
    /\ Len(peopleAll(Transcript(c))) > 10
    /\ Len(decisionsAll(Transcript(c))) > 5
    /\ Len(risksAll(Transcript(c))) > 5
    /\ Len(datesAll(Transcript(c))) > 5
    /\ Len(Entities(c).people) = 10
    /\ Len(Entities(c).decisions) = 5
    /\ Len(Entities(c).risks) = 5
    /\ Len(Entities(c).dates) = 5

\* C8: for the transcript "Monday John Smith discussed the plan with The
\* Committee." the people a call produced include "John Smith" and include
\* neither "Monday" nor "The".
C8_JohnSmithExtracted ==
  \A c \in CallIds :
    (Extracted(c)
       /\ Transcript(c) = "Monday John Smith discussed the plan with The Committee.")
      => /\ arrIncludes(Entities(c).people, "John Smith")
         /\ ~arrIncludes(Entities(c).people, "Monday")
         /\ ~arrIncludes(Entities(c).people, "The")

\* the sentences of the transcript that contain one of the keywords, in any
\* case
KeywordSentences(transcript, keywords) ==
  LET Test(sentence) ==
        \E k \in 1..Len(keywords) : includes(toLowerCase(sentence), keywords[k])
  IN  SelectSeq(sentencesOf(transcript), Test)

\* the first keyword of the list that the sentence contains
PriorityKeyword(sentence, keywords) ==
  keywords[CHOOSE k \in 1..Len(keywords) :
             /\ includes(toLowerCase(sentence), keywords[k])
             /\ \A j \in 1..(k - 1) : ~includes(toLowerCase(sentence), keywords[j])]

\* one decision record per keyword sentence
DecisionRecords(transcript) ==
  LET hits == KeywordSentences(transcript, decisionKeywords)
  IN  [i \in 1..Len(hits) |->
        [decision |-> trim(hits[i]),
         context |-> PriorityKeyword(hits[i], decisionKeywords)]]

\* C9 as stated: every sentence with a decision keyword yields exactly one
\* decision record, the trimmed sentence with the first keyword of the list
\* it contains, and the other sentences yield none.
C9_EverySentenceRecorded ==
  \A c \in CallIds :
    Extracted(c) => Entities(c).decisions = DecisionRecords(Transcript(c))

\* C9: the decisions a call produced are the first five of the records that
\* the sentences with a decision keyword yield, one per sentence and in the
\* order of the sentences: the trimmed sentence with the first keyword of the
\* list it contains, wherever the keywords stand in the sentence.
C9_FirstFiveRecorded ==
  \A c \in CallIds :
    Extracted(c) =>
      IsCutOf(Entities(c).decisions, DecisionRecords(Transcript(c)), 5)

\* a call returned for a transcript with more than five decision sentences,
\* one of them recorded under "decided" although "agreed" stands first in it
C9_Witness ==
  \E c \in CallIds :
    /\ calls[c].pc = "returned"
    /\ Len(DecisionRecords(Transcript(c))) > 5
    /\ \E i \in 1..Len(Entities(c).decisions) :
         /\ Entities(c).decisions[i].decision = "We agreed and then DECIDED it"
         /\ Entities(c).decisions[i].context = "decided"

\* the severity the claim gives a sentence
ClaimedSeverity(sentence) ==
  LET lower == toLowerCase(sentence)
  IN  CASE includes(lower, "critical") \/ includes(lower, "urgent") -> "high"
        [] includes(lower, "minor") \/ includes(lower, "small") -> "low"
        [] OTHER -> "medium"

\* one risk record per keyword sentence
RiskRecords(transcript) ==
  LET hits == KeywordSentences(transcript, riskKeywords)
  IN  [i \in 1..Len(hits) |->
        [risk |-> trim(hits[i]), severity |-> ClaimedSeverity(hits[i])]]

\* C10 as stated: every sentence with a risk keyword yields exactly one risk
\* record, with severity high for critical or urgent, else low for minor or
\* small, else medium.
C10_EverySentenceClassified ==
  \A c \in CallIds :
    Extracted(c) => Entities(c).risks = RiskRecords(Transcript(c))

\* C10: the risks a call produced are the first five of the records that the
\* sentences with a risk keyword yield, one per sentence and in the order of
\* the sentences, with severity high for critical or urgent (also beside
\* minor or small), else low for minor or small, else medium, and no other
\* severity.
C10_FirstFiveClassified ==
  \A c \in CallIds :
    Extracted(c) =>
      /\ IsCutOf(Entities(c).risks, RiskRecords(Transcript(c)), 5)
      /\ \A i \in 1..Len(Entities(c).risks) :
           Entities(c).risks[i].severity \in {"low", "medium", "high"}

\* a call returned for a transcript with more than five risk sentences and
\* recorded all three severities, high for a sentence with urgent and small
C10_Witness ==
  \E c \in CallIds :
    /\ calls[c].pc = "returned"
    /\ Len(RiskRecords(Transcript(c))) > 5
    /\ \E i \in 1..Len(Entities(c).risks) :
         /\ Entities(c).risks[i].risk = "Urgent small issue"
         /\ Entities(c).risks[i].severity = "high"
    /\ { Entities(c).risks[i].severity : i \in 1..Len(Entities(c).risks) }
         = {"low", "medium", "high"}

\* the records of all date matches: sentence by sentence, and within a
\* sentence pattern by pattern (slash, dash, full month, short month), the
\* matches of one pattern from left to right
DateRecords(transcript) ==
  LET sentences == sentencesOf(transcript)
      ofPattern(sentence, pat) ==
        LET found == patternMatches(sentence, pat)
        IN  [k \in 1..Len(found) |-> [date |-> found[k], context |-> trim(sentence)]]
      ofSentence(sentence) ==
        ofPattern(sentence, 1) \o ofPattern(sentence, 2)
          \o ofPattern(sentence, 3) \o ofPattern(sentence, 4)
      RECURSIVE upTo(_)
      upTo(n) == IF n = 0 THEN <<>> ELSE upTo(n - 1) \o ofSentence(sentences[n])
  IN  upTo(Len(sentences))

ExampleDates ==
  "Meeting on 03/15/2024 and deadline 04-01-2024 and review on January 5, 2024."

\* the example of C11: exactly the three dates, in that order
ExampleDatesListed(c) ==
  Transcript(c) = ExampleDates =>
    [i \in 1..Len(Entities(c).dates) |-> Entities(c).dates[i].date]
      = <<"03/15/2024", "04-01-2024", "January 5, 2024">>

\* C11 as stated: entities.dates lists all matches, sentence by sentence and
\* within a sentence pattern by pattern, each with the trimmed sentence as
\* context, and the example transcript gives exactly its three dates.
C11_AllDatesListed ==
  \A c \in CallIds :
    Extracted(c) =>
      /\ Entities(c).dates = DateRecords(Transcript(c))
      /\ ExampleDatesListed(c)

\* C11: entities.dates is the first five of the matches listed sentence by
\* sentence in document order and, within a sentence, slash matches before
\* dash matches before full-month matches before short-month matches
\* whatever their positions, each with the trimmed sentence as context; the
\* example transcript gives exactly its three dates in that order.
C11_FirstFiveDatesInPatternOrder ==
  \A c \in CallIds :
    Extracted(c) =>
      /\ IsCutOf(Entities(c).dates, DateRecords(Transcript(c)), 5)
      /\ ExampleDatesListed(c)

\* a call returned for a transcript with more than five matches, with a
\* sentence whose slash date stands behind its dash date and is listed first
C11_Witness ==
  \E c \in CallIds :
    /\ calls[c].pc = "returned"
    /\ Len(DateRecords(Transcript(c))) > 5
    /\ Len(Entities(c).dates) = 5
    /\ \E i \in 1..4 :
         /\ Entities(c).dates[i].date = "3/4/2024"
         /\ Entities(c).dates[i + 1].date = "1-2-2024"
         /\ Entities(c).dates[i].context = Entities(c).dates[i + 1].context

\* the value is an array
IsArray(list) == DOMAIN list = 1..Len(list)

\* C12: a call that fetched a meeting note whose transcript is not blank is
\* not rejected, and what it produced has a non-empty summary_text and
\* entities with exactly the four lists decisions, risks, people and dates.
C12_ProcessingIsTotal ==
  \A c \in CallIds :
    (Fetched(c) /\ FetchedNote(c).source = "meeting" /\ ~BlankTranscript(FetchedNote(c)))
      => /\ calls[c].pc # "rejected"
         /\ calls[c].error = NULL
         /\ Extracted(c) =>
              /\ DOMAIN Output(c) = {"summary_text", "entities"}
              /\ Output(c).summary_text # ""
              /\ DOMAIN Entities(c) = {"decisions", "risks", "people", "dates"}
              /\ IsArray(Entities(c).decisions)
              /\ IsArray(Entities(c).risks)
              /\ IsArray(Entities(c).people)
              /\ IsArray(Entities(c).dates)

\* a call returned for a transcript of punctuation only, with four empty
\* lists and a summary
C12_Witness ==
  \E c \in CallIds :
    /\ calls[c].pc = "returned"
    /\ sentencesOf(Transcript(c)) = <<>>
    /\ Entities(c) = [decisions |-> <<>>, risks |-> <<>>, people |-> <<>>, dates |-> <<>>]
    /\ Len(Output(c).summary_text) > 0

startsWith(s, prefix) ==
  Len(prefix) <= Len(s) /\ SubSeq(s, 1, Len(prefix)) = prefix

endsWith(s, suffix) ==
  Len(suffix) <= Len(s) /\ SubSeq(s, Len(s) - Len(suffix) + 1, Len(s)) = suffix

\* the decimal digits of a natural number below 100
Decimal(n) ==
  LET digit(d) == SubSeq("0123456789", d + 1, d + 1)
  IN  IF n < 10 THEN digit(n) ELSE digit(n \div 10) \o digit(n % 10)

\* the last sentence of every summary, for a transcript of n sentences
ClosingSentence(n) ==
  "The meeting covered various topics and lasted for approximately "
    \o Decimal((n + 9) \div 10) \o " minutes of discussion."

\* C13: the summary_text a call produced starts with "Meeting summary: This
\* meeting involved " followed by "N participants", N the number of people
\* extracted, or by "multiple participants" when there are none, so it
\* contains "Meeting summary" and "participants", and it ends with the
\* sentence on the minutes of discussion.
C13_SummaryShape ==
  \A c \in CallIds :
    Extracted(c) =>
      LET summary == Output(c).summary_text
          N       == Len(Entities(c).people)
      IN  /\ startsWith(summary,
               "Meeting summary: This meeting involved "
                 \o (IF N > 0 THEN Decimal(N) \o " participants"
                     ELSE "multiple participants"))
          /\ includes(summary, "Meeting summary")
          /\ includes(summary, "participants")
          /\ endsWith(summary, ClosingSentence(Len(sentencesOf(Transcript(c)))))

\* a call returned for a transcript with exactly one name: the plural stays
C13_Witness ==
  \E c \in CallIds :
    /\ calls[c].pc = "returned"
    /\ Len(Entities(c).people) = 1
    /\ startsWith(Output(c).summary_text,
                  "Meeting summary: This meeting involved 1 participants including ")
    /\ endsWith(Output(c).summary_text, " minutes of discussion.")

\* the row without the three columns finaliseMeeting may write
Framed(row) ==
  [row EXCEPT !.summary_text = NULL, !.entities = NULL, !.updated_at = 0]

\* C14: a step of a finaliseMeeting call creates and deletes no note, leaves
\* every other note as it is, and changes the call's note in no column other
\* than summary_text, entities and updated_at.
C14_FinaliseFrame ==
  [][\A c \in CallIds :
       calls'[c] # calls[c] =>
         /\ DOMAIN notes' = DOMAIN notes
         /\ \A id \in DOMAIN notes :
              IF id = calls'[c].note_id
              THEN Framed(notes'[id]) = Framed(notes[id])
              ELSE notes'[id] = notes[id]]_vars

\* a call wrote its result to a note whose title, content_md or
\* transcript_text an updateNote changed after the call fetched it, while
\* another note is stored, and the change is still there
C14_Witness ==
  \E c \in CallIds :
    /\ calls[c].pc = "returned"
    /\ writer[calls[c].note_id] = c
    /\ notes[calls[c].note_id].transcript_text = Some(Transcript2)
    /\ FetchedNote(c).transcript_text = Some(Transcript1)
    /\ notes[calls[c].note_id].summary_text = Some(Output(c).summary_text)
    /\ DOMAIN notes # {calls[c].note_id}

\* the fetched note passes both validations
Valid(c) ==
  /\ Fetched(c)
  /\ FetchedNote(c).source = "meeting"
  /\ ~BlankTranscript(FetchedNote(c))

\* C15: a call has extracted only after its fetch answered with a note that
\* passes both validations, has issued an UPDATE only after it computed its
\* result, has issued at most one SELECT and at most one UPDATE, and has
\* issued no UPDATE when its fetch failed or its note failed a validation.
C15_CallOrder ==
  \A c \in CallIds :
    /\ Extracted(c) => Valid(c)
    /\ calls[c].updates > 0 => Extracted(c)
    /\ calls[c].pc \in {"update", "updated", "returned"} => calls[c].updates = 1
    /\ calls[c].selects <= 1
    /\ calls[c].updates <= 1
    /\ calls[c].pc # "idle" => calls[c].selects = 1
    /\ ~Valid(c) => calls[c].updates = 0 /\ ~Extracted(c)

\* a call returned after one SELECT and one UPDATE
C15_Witness ==
  \E c \in CallIds :
    /\ calls[c].pc = "returned"
    /\ Valid(c)
    /\ calls[c].selects = 1
    /\ calls[c].updates = 1

\* the step rejects call c because its SELECT or its UPDATE failed
FailsIn(c) ==
  /\ calls[c].pc # "rejected"
  /\ calls'[c].pc = "rejected"
  /\ calls[c].pc = "update" \/ calls'[c].rows = NULL

\* C16: when the SELECT or the UPDATE of a call fails, the call rejects with
\* the error of the database as it is, sends no further statement and
\* changes no note; a rejected call stays rejected and returns nothing; and
\* a rejected call has never written its note.
C16_FailuresPropagate ==
  /\ [][\A c \in CallIds :
         /\ FailsIn(c) =>
              /\ calls'[c].error = Some(StorageError)
              /\ calls'[c].selects = calls[c].selects
              /\ calls'[c].updates = calls[c].updates
              /\ notes' = notes
         /\ calls[c].pc = "rejected" => calls'[c] = calls[c]]_vars
  /\ [](\A c \in CallIds :
         (calls[c].pc = "rejected" /\ calls[c].note_id \in DOMAIN notes)
           => writer[calls[c].note_id] # c)

\* the UPDATE of a call failed and the note is still unprocessed
C16_Witness ==
  \E c \in CallIds :
    /\ calls[c].pc = "rejected"
    /\ calls[c].error = Some(StorageError)
    /\ calls[c].updates = 1
    /\ Extracted(c)
    /\ notes[calls[c].note_id].summary_text = NULL
    /\ notes[calls[c].note_id].entities = NULL

\* C17 as stated: between the answer of the fetch and the sending of the
\* UPDATE a call does not yield, so once its note has passed the validations
\* the next step is the call's own.
C17_OnlyFetchAndUpdateSuspend ==
  [][\A c \in CallIds :
       (Valid(c) /\ calls[c].updates = 0) => calls'[c] # calls[c]]_vars

\* C17: a call in progress waits for its SELECT, for the timer of
\* processTranscript or for its UPDATE and nowhere else: the validations are
\* decided in the step that receives the row, and segmentation, extraction,
\* synthesis and the sending of the UPDATE happen in the one step after the
\* timer.
C17_ThreeSuspensionPoints ==
  \A c \in CallIds :
    /\ calls[c].rows # NULL =>
         \/ Valid(c) /\ calls[c].pc \in {"timer", "update", "updated", "returned", "rejected"}
         \/ ~Valid(c) /\ calls[c].pc = "rejected" /\ calls[c].error # NULL
    /\ calls[c].pc = "select" => calls[c].rows = NULL
    /\ calls[c].pc = "timer" => Valid(c) /\ ~Extracted(c) /\ calls[c].updates = 0
    /\ Extracted(c) <=> calls[c].updates = 1
    /\ calls[c].pc \in {"update", "updated", "returned"} => Extracted(c)

\* an updateNote ran while a call waited for the timer: the stored transcript
\* is no longer the one the call fetched and is about to process
C17_Witness ==
  \E c \in CallIds :
    /\ calls[c].pc = "timer"
    /\ notes[calls[c].note_id].transcript_text # FetchedNote(c).transcript_text

\* C18: whatever the other calls do, the error a call rejects with is the
\* one the checks give for the rows it fetched, the result it produces is the
\* one processTranscript gives for the transcript it fetched, and a call on
\* another note never writes this call's note.
C18_CallsIndependent ==
  \A c \in CallIds :
    /\ calls[c].rows # NULL => calls[c].error = finaliseCheck(calls[c].rows[1], calls[c].note_id)
    /\ Extracted(c) => Output(c) = processTranscript(Transcript(c))
    /\ \A d \in CallIds \ {c} :
         (calls[d].note_id # calls[c].note_id /\ calls[c].note_id \in DOMAIN notes)
           => writer[calls[c].note_id] # d

\* two calls returned for different notes with different transcripts, each
\* with its own result stored in its own note
C18_Witness ==
  \E c, d \in CallIds :
    /\ calls[c].pc = "returned"
    /\ calls[d].pc = "returned"
    /\ calls[c].note_id # calls[d].note_id
    /\ Transcript(c) # Transcript(d)
    /\ notes[calls[c].note_id].summary_text = Some(Output(c).summary_text)
    /\ notes[calls[d].note_id].summary_text = Some(Output(d).summary_text)
    /\ Output(c) # Output(d)

\* the row C19 describes after an update: the input's value in every
\* updatable column the input has, the time in updated_at, the stored value
\* in every other column
Updatable == {"title", "content_md", "transcript_text", "summary_text", "entities"}

RowAfterUpdate(row, input, time) ==
  [column \in DOMAIN row |->
     IF column \in Updatable \cap DOMAIN input THEN input[column]
     ELSE IF column = "updated_at" THEN time
     ELSE row[column]]

\* C19: for every input, updateNote on a stored id resolves to the row with
\* exactly the fields of the input changed (an explicit null stored as null)
\* and updated_at refreshed, and on a missing id rejects with a message
\* mentioning "not found"; and every updateNote step stores that row for
\* some input and changes nothing else, or changes no note at all.
C19_UpdateNoteFrame ==
  /\ [](\A input \in NotesUpdateInputs :
         LET result == updateNoteResult(input)
         IN  IF input.id \in DOMAIN notes
             THEN /\ result.error = NULL
                  /\ result.note = Some(RowAfterUpdate(notes[input.id], input, now))
             ELSE /\ result.note = NULL
                  /\ includes(toLowerCase(result.error[1]), "not found"))
  /\ [][updatesDone' # updatesDone =>
         \E input \in NotesUpdateInputs :
           IF input.id \in DOMAIN notes
           THEN notes' = [notes EXCEPT ![input.id] = RowAfterUpdate(@, input, now)]
           ELSE notes' = notes]_vars

\* an update with explicit nulls cleared the summary_text and entities that
\* a finaliseMeeting call had stored, and refreshed updated_at
C19_Witness ==
  \E id \in DOMAIN notes :
    /\ writer[id] = "updateNote"
    /\ notes[id].summary_text = NULL
    /\ notes[id].entities = NULL
    /\ notes[id].updated_at > notes[id].created_at
    /\ \E c \in CallIds :
         calls[c].note_id = id /\ calls[c].pc \in {"updated", "returned"}

Unprocessed(row) == row.summary_text = NULL /\ row.entities = NULL

\* the step is the UPDATE of a finaliseMeeting call on the note
FinaliseWrites(id) ==
  \E c \in CallIds :
    calls[c].note_id = id /\ calls[c].pc = "update" /\ calls'[c].pc = "updated"

\* C20: the row createNote resolves to is unprocessed for every input, a
\* row that enters the table is unprocessed, and a stored row's summary_text
\* or entities changes from null to a value only in an updateNote step or in
\* the UPDATE of a finaliseMeeting call on that note.
C20_CreatedUnprocessed ==
  /\ [](\A input \in NotesCreateInputs :
         (nextNoteId # NULL /\ createNoteResult(input).error = NULL)
           => Unprocessed(createNoteResult(input).note[1]))
  /\ [][\A id \in DOMAIN notes' :
         IF id \notin DOMAIN notes
         THEN Unprocessed(notes'[id])
         ELSE (\/ notes[id].summary_text = NULL /\ notes'[id].summary_text # NULL
               \/ notes[id].entities = NULL /\ notes'[id].entities # NULL)
                => updatesDone' # updatesDone \/ FinaliseWrites(id)]_vars

\* an import note with content is stored unprocessed beside a meeting note
\* that a finaliseMeeting call processed
C20_Witness ==
  \E id, other \in DOMAIN notes :
    /\ notes[id].source = "import"
    /\ writer[id] = "createNote"
    /\ Unprocessed(notes[id])
    /\ writer[other] \in CallIds
    /\ ~Unprocessed(notes[other])

(***************************************************************************)
(* The claims about getWorkspaces.                                         *)
(***************************************************************************)
\* the rows are in the order of ORDER BY created_at DESC
MostRecentFirst(results) ==
  \A i, j \in 1..Len(results) :
    i < j => results[i].created_at >= results[j].created_at

\* the rows are the workspaces of the owner, each once
ExactlyOwned(results, userId) ==
  LET owned == { id \in DOMAIN workspaces : workspaces[id].owner_id = userId }
  IN  /\ Len(results) = Cardinality(owned)
      /\ { results[i] : i \in 1..Len(results) } = { workspaces[id] : id \in owned }

\* C21: every getWorkspaces(userId) call resolves to exactly the workspaces
\* whose owner_id is userId, none for an unknown user, and the most recently
\* created workspace comes first.
C21_OwnedMostRecentFirst ==
  [][listed' # listed =>
       /\ ExactlyOwned(listed'[1].results, listed'[1].userId)
       /\ MostRecentFirst(listed'[1].results)]_vars

(***************************************************************************)
(* The claims about people extraction.                                     *)
(***************************************************************************)
Denylist ==
  { "The", "This", "That",
    "Monday", "Tuesday", "Wednesday", "Thursday", "Friday", "Saturday", "Sunday",
    "January", "February", "March", "April", "May", "June", "July", "August",
    "September", "October", "November", "December" }

\* the matches that are not on the denylist, in their order
KeptMatches(matches) ==
  LET Test(m) == m \notin Denylist
  IN  SelectSeq(matches, Test)

\* the sequence without every later repeat of an earlier element
FirstOccurrences(seq) ==
  LET firsts == { i \in 1..Len(seq) : \A j \in 1..(i - 1) : seq[j] # seq[i] }
      nth(k) == CHOOSE i \in firsts : Cardinality({ j \in firsts : j <= i }) = k
  IN  [k \in 1..Cardinality(firsts) |-> seq[nth(k)]]

\* C22: the people a call produced hold no string twice and are the first
\* 10 elements of the pattern matches without the denylisted matches and
\* without every later repeat of an earlier match, in the order of their
\* first appearance.
C22_PeopleDistinctFirstSeen ==
  \A c \in CallIds :
    Extracted(c) =>
      LET people == Entities(c).people
      IN  /\ \A i, j \in 1..Len(people) : i # j => people[i] # people[j]
          /\ IsCutOf(people,
                     FirstOccurrences(KeptMatches(nameMatches(Transcript(c)))), 10)

\* a call returned for a transcript in which a name is matched again after
\* other names, a denylisted word is matched, and more than 10 names survive
C22_Witness ==
  \E c \in CallIds :
    /\ calls[c].pc = "returned"
    /\ LET matches == nameMatches(Transcript(c))
           kept    == KeptMatches(matches)
       IN  /\ Len(kept) < Len(matches)
           /\ \E i, j \in 1..Len(kept) : i + 1 < j /\ kept[i] = kept[j]
           /\ Len(FirstOccurrences(kept)) > 10
    /\ Len(Entities(c).people) = 10

\* the positions at which a capitalized word starts: an uppercase letter and
\* one or more lowercase letters, with no word character before or after
capStarts(text) ==
  { i \in 1..Len(text) :
      /\ IsUpper(Ch(text, i))
      /\ ~IsWord(Ch(text, i - 1))
      /\ runLen(text, i + 1, LowerChars) >= 1
      /\ ~IsWord(Ch(text, i + 1 + runLen(text, i + 1, LowerChars))) }

\* the position after the capitalized word that starts at i
capEnd(text, i) == i + 1 + runLen(text, i + 1, LowerChars)

\* the capitalized word at i follows another one after one character of Seps
continuesRun(text, i, Seps) ==
  \E j \in capStarts(text) : capEnd(text, j) + 1 = i /\ Ch(text, capEnd(text, j)) \in Seps

\* the position after the run of capitalized words that starts at i
RECURSIVE runEnd(_, _, _)
runEnd(text, i, Seps) ==
  LET e == capEnd(text, i)
  IN  IF Ch(text, e) \in Seps /\ (e + 1) \in capStarts(text)
      THEN runEnd(text, e + 1, Seps)
      ELSE e

\* the maximal runs of capitalized words in which each word is separated from
\* the next by exactly one character of Seps, from left to right
MergedRuns(text, Seps) ==
  LET starts == { i \in capStarts(text) : ~continuesRun(text, i, Seps) }
      nth(k) == CHOOSE i \in starts : Cardinality({ j \in starts : j <= i }) = k
  IN  [k \in 1..Cardinality(starts) |->
        SubSeq(text, nth(k), runEnd(text, nth(k), Seps) - 1)]

\* the people that the given matches leave
PeopleFrom(matches) ==
  LET all == FirstOccurrences(KeptMatches(matches))
  IN  SubSeq(all, 1, IF Len(all) < 10 THEN Len(all) ELSE 10)

TensCovering(n) == CHOOSE m \in 0..n : 10 * m >= n /\ (m = 0 \/ 10 * (m - 1) < n)

\* the sentence the summary may quote: index floor(n / 2), counted from 0
MiddleSentence(sentences) == trim(sentences[(Len(sentences) \div 2) + 1])

\* C24: with n the number of non-empty sentences of the transcript, index
\* floor(n/2) lies within the sentence list whenever the list is not empty;
\* the summary contains "Key discussion point: S. ", for the trimmed
\* sentence S at that index, if and only if n > 2 and S has more than 20
\* characters, and contains no "Key discussion point" otherwise; and the
\* minutes figure of the summary is ceil(n/10), which is 0 when n = 0.
C24_KeyPointAndMinutes ==
  \A c \in CallIds :
    Extracted(c) =>
      LET sentences == sentencesOf(Transcript(c))
          n         == Len(sentences)
          summary   == Output(c).summary_text
          quoted    == n > 2 /\ Len(MiddleSentence(sentences)) > 20
      IN  /\ n > 0 => (n \div 2) + 1 \in 1..n
          /\ quoted =>
               includes(summary,
                        "Key discussion point: " \o MiddleSentence(sentences) \o ". ")
          /\ ~quoted => ~includes(summary, "Key discussion point")
          /\ endsWith(summary,
                      " lasted for approximately " \o Decimal(TensCovering(n))
                        \o " minutes of discussion.")
          /\ n = 0 => endsWith(summary, " approximately 0 minutes of discussion.")

\* a call returned for a transcript of eleven sentences whose sixth sentence
\* is quoted, with 2 minutes of discussion
C24_Witness ==
  \E c \in CallIds :
    /\ calls[c].pc = "returned"
    /\ Len(sentencesOf(Transcript(c))) = 11
    /\ includes(Output(c).summary_text,
                "Key discussion point: The sixth sentence is the long one. ")
    /\ endsWith(Output(c).summary_text, " approximately 2 minutes of discussion.")

(***************************************************************************)
(* The claims about segmentation.                                          *)
(***************************************************************************)
\* the single segmented sentence list: the pieces between the delimiters
\* without the empty and whitespace-only ones, each trimmed
Segmented(transcript) ==
  LET pieces == sentencesOf(transcript)
  IN  [i \in 1..Len(pieces) |-> trim(pieces[i])]

FirstOf(list, cap) == SubSeq(list, 1, IF Len(list) < cap THEN Len(list) ELSE cap)

\* C25: for every transcript the decisions, risks and dates a call produced,
\* each extractor splitting the raw transcript itself and keeping the empty
\* pieces, are exactly the ones the extractors produce from the single
\* segmented sentence list.
C25_SharedSegmentationEquivalent ==
  \A c \in CallIds :
    Extracted(c) =>
      LET shared == Segmented(Transcript(c))
      IN  /\ Entities(c).decisions = FirstOf(decisionsOf(shared), 5)
          /\ Entities(c).risks = FirstOf(risksOf(shared), 5)
          /\ Entities(c).dates = FirstOf(datesOf(shared), 5)

\* a call returned for a transcript whose raw split has whitespace-only and
\* empty pieces and sentences with whitespace around them, and that yields
\* decisions, risks and dates
C25_Witness ==
  \E c \in CallIds :
    /\ calls[c].pc = "returned"
    /\ LET raw == splitSentences(Transcript(c))
       IN  /\ \E i \in 1..Len(raw) : raw[i] = ""
           /\ \E i \in 1..Len(raw) : raw[i] # "" /\ trim(raw[i]) = ""
           /\ \E i \in 1..Len(raw) : trim(raw[i]) # "" /\ trim(raw[i]) # raw[i]
           /\ Len(raw) > Len(Segmented(Transcript(c)))
    /\ Entities(c).decisions # <<>>
    /\ Entities(c).risks # <<>>
    /\ Entities(c).dates # <<>>

(***************************************************************************)
(* The claims about interleavings.                                         *)
(***************************************************************************)
\* the step in which the UPDATE of call c runs on its note
UpdateRuns(c) ==
  /\ calls[c].pc = "update"
  /\ calls'[c].pc = "updated"
  /\ calls[c].note_id \in DOMAIN notes

\* the row holds the summary and the entities of its own transcript
DerivedFromOwnTranscript(row) ==
  /\ row.transcript_text # NULL
  /\ row.summary_text = Some(processTranscript(row.transcript_text[1]).summary_text)
  /\ row.entities = Some(processTranscript(row.transcript_text[1]).entities)

\* C26: when the UPDATE of a finaliseMeeting call has run, the note's stored
\* summary_text and entities are the ones derived from the transcript_text
\* the note stores at that moment, also when an updateNote changed the
\* transcript after the call fetched the note.
C26_SummaryMatchesStoredTranscript ==
  [][\A c \in CallIds :
       UpdateRuns(c) => DerivedFromOwnTranscript(notes'[calls[c].note_id])]_vars

\* two different calls work on the same note and fetched the same transcript
SameWork(c, d) ==
  /\ c # d
  /\ calls[c].note_id = calls[d].note_id
  /\ Valid(c)
  /\ Valid(d)
  /\ FetchedNote(c).transcript_text = FetchedNote(d).transcript_text

\* C27: of two finaliseMeeting calls on the same meeting note that fetched
\* the same transcript, however their steps interleave, neither is rejected
\* and both produce the same result; and whenever a call is the last writer
\* of a note's summary_text and entities, the note stores exactly the pair
\* that call produced, never a part of it or a mixture.
C27_ConcurrentFinaliseAgree ==
  /\ \A c, d \in CallIds :
       SameWork(c, d) =>
         /\ calls[c].pc # "rejected"
         /\ calls[c].error = NULL
         /\ (Extracted(c) /\ Extracted(d)) => Output(c) = Output(d)
  /\ \A c \in CallIds :
       (calls[c].note_id \in DOMAIN notes /\ writer[calls[c].note_id] = c)
         => /\ notes[calls[c].note_id].summary_text = Some(Output(c).summary_text)
            /\ notes[calls[c].note_id].entities = Some(Output(c).entities)

\* two calls fetched the same unprocessed note before either wrote it, both
\* returned, and the note stores the result of both
C27_Witness ==
  \E c, d \in CallIds :
    /\ SameWork(c, d)
    /\ calls[c].pc = "returned"
    /\ calls[d].pc = "returned"
    /\ FetchedNote(c).summary_text = NULL
    /\ FetchedNote(d).summary_text = NULL
    /\ Output(c) = Output(d)
    /\ notes[calls[c].note_id].transcript_text = FetchedNote(c).transcript_text
    /\ notes[calls[c].note_id].summary_text = Some(Output(c).summary_text)
    /\ notes[calls[c].note_id].entities = Some(Output(d).entities)

\* C28: no step removes a note or changes its source; a note whose source is
\* not 'meeting' is never written by a finaliseMeeting call, and every call
\* that fetched it is rejected with a message mentioning "meeting source"
\* without issuing an UPDATE, so that a call rejected for the source is
\* followed only by calls rejected for the source.
C28_SourceImmutable ==
  /\ [][\A id \in DOMAIN notes :
         id \in DOMAIN notes' /\ notes'[id].source = notes[id].source]_vars
  /\ [](\A id \in DOMAIN notes :
         notes[id].source # "meeting" =>
           /\ writer[id] \notin CallIds
           /\ \A c \in CallIds :
                (calls[c].note_id = id /\ Fetched(c))
                  => RejectedWith(c, "meeting source") /\ calls[c].updates = 0)
  /\ [](\A c, d \in CallIds :
         (/\ calls[c].note_id = calls[d].note_id
          /\ RejectedWith(c, "meeting source")
          /\ Fetched(d))
           => RejectedWith(d, "meeting source"))

\* two calls were rejected for the source of the same note, with an
\* updateNote on that note between their fetches, and the note is unprocessed
C28_Witness ==
  \E c, d \in CallIds :
    /\ c # d
    /\ calls[c].note_id = calls[d].note_id
    /\ RejectedWith(c, "meeting source")
    /\ RejectedWith(d, "meeting source")
    /\ FetchedNote(c) # FetchedNote(d)
    /\ FetchedNote(c).source = FetchedNote(d).source
    /\ notes[calls[c].note_id].source = "manual"
    /\ notes[calls[c].note_id].summary_text = NULL
    /\ notes[calls[c].note_id].entities = NULL

(***************************************************************************)
(* The claims about dates and about the counts of the summary.             *)
(***************************************************************************)
\* the number of entries of the list with the date
EntriesWith(dates, date) == Cardinality({ i \in 1..Len(dates) : dates[i].date = date })

\* the number of places of the transcript at which the text stands
OccurrencesIn(transcript, text) ==
  Cardinality({ i \in 1..Len(transcript) : literalAt(transcript, i, text) })

\* C29: every date occurrence of the transcript contributes at most one
\* entry to entities.dates: a date text is listed at most as many times as
\* it occurs in the transcript, for every month name, 'May' included, and
\* every date format.
C29_EachDateOccurrenceOnce ==
  \A c \in CallIds :
    Extracted(c) =>
      \A i \in 1..Len(Entities(c).dates) :
        EntriesWith(Entities(c).dates, Entities(c).dates[i].date)
          <= OccurrencesIn(Transcript(c), Entities(c).dates[i].date)

\* the names separated by ", "
RECURSIVE Listed(_)
Listed(names) ==
  IF Len(names) = 0 THEN ""
  ELSE IF Len(names) = 1 THEN names[1]
  ELSE names[1] \o ", " \o Listed(Tail(names))

\* the opening of the summary that agrees with the people of the result
ParticipantsClause(people) ==
  LET N == Len(people)
  IN  "Meeting summary: This meeting involved "
        \o (IF N = 0 THEN "multiple participants"
            ELSE Decimal(N) \o " participants including "
                   \o Listed(SubSeq(people, 1, IF N < 3 THEN N ELSE 3))
                   \o (IF N > 3 THEN " and " \o Decimal(N - 3) \o " others" ELSE ""))
        \o ". "

\* the decision clause that agrees with the decisions of the result
DecisionClause(decisions) ==
  LET D == Len(decisions)
  IN  IF D = 0 THEN ""
      ELSE Decimal(D) \o " key decision" \o (IF D = 1 THEN " was" ELSE "s were")
             \o " made during the discussion. "

\* C30: the summary of a result opens with "N participants", N the length of
\* the result's entities.people, followed by the first min(3, N) of these
\* people and by "and N-3 others" exactly when N > 3 ("multiple participants"
\* and no names when N = 0); the decision clause follows exactly when
\* entities.decisions is not empty, with the length of entities.decisions, at
\* most 5, as its count and with ' was' for 1 and 's were' for more.
C30_SummaryCountsAgree ==
  \A c \in CallIds :
    Extracted(c) =>
      LET summary == Output(c).summary_text
          opening == ParticipantsClause(Entities(c).people)
                       \o DecisionClause(Entities(c).decisions)
          rest    == SubSeq(summary, Len(opening) + 1, Len(summary))
      IN  /\ startsWith(summary, opening)
          /\ \/ startsWith(rest, "Key discussion point: ")
             \/ startsWith(rest, "The meeting covered various topics")
          /\ Len(Entities(c).decisions) <= 5
          /\ Len(Entities(c).people) <= 10

\* a call returned for a transcript with eleven names and one decision: 10
\* participants, three of them named, 7 others, and the singular clause
C30_Witness ==
  \E c \in CallIds :
    /\ calls[c].pc = "returned"
    /\ Len(peopleAll(Transcript(c))) = 11
    /\ Len(Entities(c).people) = 10
    /\ Len(Entities(c).decisions) = 1
    /\ startsWith(Output(c).summary_text,
                  "Meeting summary: This meeting involved 10 participants including "
                    \o "Ann, Ben, Cal and 7 others. 1 key decision was made during "
                    \o "the discussion. ")

====
